---- MODULE Spec2Model ----
\* A model of the range-partitioned download engine of ZeroKwok/downloader:
\* Range (src/src/range.hpp), Range2 / RangeFileMeta / RangeFile
\* (src/src/range_file.hpp) and DownloadFile (src/unnamed/part_003).
EXTENDS Integers, Sequences, FiniteSets, TLC

\* ------------------------------------------------------------------ bounds
NumWorkers == 2      \* worker threads of one run
MaxBytes == 4        \* largest bytesTotal and blockHint of the RangeFile runs

Workers == 1..NumWorkers

\* ------------------------------------------------------------ Range, Range2
kUnfilled == "Unfilled"
kPending == "Pending"
kPartial == "Partial"
kFilled == "Filled"

\* Range2{ s, e } : position and state take their default member initialisers
Range2(s, e) == [start |-> s, end |-> e, position |-> 0, state |-> kUnfilled]

\* Range2{} : the default-constructed, invalid interval
InvalidRange == [start |-> -1, end |-> -1, position |-> 0, state |-> kUnfilled]

Min2(a, b) == IF a < b THEN a ELSE b
Max2(a, b) == IF a > b THEN a ELSE b
Abs(x) == IF x < 0 THEN -x ELSE x

valid(r) == r.start >= 0 /\ r.start <= r.end

size(r) == IF valid(r) THEN r.end - r.start + 1 ELSE 0

intersected(a, b) == ~(a.end < b.start \/ a.start > b.end)

\* mergeable without its adjacency test
mergeableIntersectedOnly(a, b) ==
    IF ~valid(a) \/ ~valid(b) THEN FALSE ELSE intersected(a, b)

mergeable(a, b) ==
    IF ~valid(a) \/ ~valid(b) THEN FALSE
    ELSE IF intersected(a, b) THEN TRUE
    ELSE Abs(a.start - b.end) = 1 \/ Abs(a.end - b.start) = 1

\* Range::operator+ : the bounds of the union, or the invalid bounds
plus(a, b) ==
    IF mergeable(a, b)
    THEN IF intersected(a, b)
         THEN [start |-> Min2(a.start, b.start), end |-> Max2(a.end, b.end)]
         ELSE IF a.start < b.start
              THEN [start |-> a.start, end |-> b.end]
              ELSE [start |-> b.start, end |-> a.end]
    ELSE [start |-> -1, end |-> -1]

\* ------------------------------------------------- std::set<Range2> (by start)
\* Range::operator< orders by start alone, so a set holds at most one member
\* per start, insert of an equivalent key is refused and find matches by start.
setInsert(S, r) == IF \E x \in S : x.start = r.start THEN S ELSE S \cup {r}

setFind(S, r) == {x \in S : x.start = r.start}

begin(S) == CHOOSE x \in S : \A y \in S : x.start <= y.start

RECURSIVE ordered(_)
ordered(S) == IF S = {} THEN <<>> ELSE <<begin(S)>> \o ordered(S \ {begin(S)})

\* the for-loop of the mergeRanges lambda over the members in set order
RECURSIVE mergeLoop(_, _, _)
mergeLoop(rs, lastR, duplicate) ==
    IF rs = <<>> THEN setInsert(duplicate, lastR)
    ELSE LET r == Head(rs) IN
         IF ~valid(lastR) THEN mergeLoop(Tail(rs), r, duplicate)
         ELSE IF mergeable(lastR, r)
              THEN mergeLoop(Tail(rs),
                             [start |-> plus(lastR, r).start,
                              end |-> plus(lastR, r).end,
                              position |-> Max2(lastR.position, r.position),
                              state |-> lastR.state],
                             duplicate)
              ELSE mergeLoop(Tail(rs), r, setInsert(duplicate, lastR))

mergeRangesIdentity(ranges) == ranges

mergeRanges(ranges) ==
    LET duplicate == mergeLoop(ordered(ranges), InvalidRange, {})
    IN IF Cardinality(ranges) # Cardinality(duplicate) THEN duplicate ELSE ranges

\* ------------------------------------------------------------------- state
VARIABLES
    blockHint,        \* RangeFileMeta::_blockHint
    bytesTotal,       \* RangeFileMeta::_bytesTotal
    bytesProcessed,   \* RangeFileMeta::_bytesProcessed
    allocateRanges,   \* RangeFileMeta::_allocateRanges
    finishedRanges,   \* RangeFileMeta::_finishedRanges
    availableRanges,  \* RangeFileMeta::_availableRanges
    mutex,            \* RangeFile::_mutex : 0 when free, else the owning worker
    last,             \* allocate's local `last` while the tiling loop runs
    wpc,              \* each worker's position in its loop
    wrange,           \* each worker's local Range2 `range`
    wsize,            \* each worker's `size` argument of the running fill
    wtmp,             \* the value of _bytesProcessed a worker's += has loaded
    wecode,           \* each worker's `ecode`, the error its fill left
    calls,            \* history: the first completed RangeFile calls
    opened,           \* RangeFile::_file is an open handle
    filePos,          \* the file position of RangeFile::_file
    tempFile,         \* P.temp on disk: [exists, size, data]
    metaFile,         \* P.meta on disk: NoMeta or the RangeFileMeta it holds
    metaTempFile,     \* P.meta.temp on disk: NoMeta or a RangeFileMeta
    finalFile,        \* P on disk: [exists, size, data]
    darchive,         \* dump's local `archive`
    cpc,              \* the coordinating thread's position
    connections,      \* download_preference::connections
    blockSize,        \* download_preference::blockSize
    attribute,        \* DownloadFile's file_attribute: [contentLength, acceptRanges]
    error,            \* DownloadFile's std::error_code& error
    ret,              \* DownloadFile's return value, "none" until it returns
    flag,             \* DownloadFile's std::atomic_int flag
    clock,            \* measure(start) against config.timeout: 0 below, 1 equal, 2 above
    response,         \* direct mode's cpr::Response response: [status, code]
    states,           \* multi mode's std::vector<State> states: [flag, error]
    wresponse,        \* each worker's cpr::Response response: [status, code]
    lastIndex,        \* the coordinator loop's lastIndex
    lastDump,         \* the coordinator loop's lastDump, as a value of clock
    promoted          \* history: bytesTotal, finished and size at the move P.temp -> P

metaVars == <<blockHint, bytesTotal, bytesProcessed,
              allocateRanges, finishedRanges, availableRanges>>
workerVars == <<wpc, wrange, wsize, wtmp, wecode>>
fsVars == <<opened, filePos, tempFile, metaFile, metaTempFile, finalFile>>
coVars == <<darchive, cpc, connections, blockSize, attribute, error, ret, flag,
            clock, response, states, wresponse, lastIndex, lastDump, promoted>>
vars == <<metaVars, mutex, last, workerVars, calls, fsVars, coVars>>

\* `calls` follows the first completed RangeFile calls for as long as they are
\* allocate (true), fill of a proper part (0 < n < size), deallocate by one
\* worker: stage = how many of the three have completed, then "over"
FreshCalls == [stage |-> 0, w |-> 0]
OverCalls == [stage |-> 4, w |-> 0]

record(op, w, arg) ==
    CASE calls.stage = 0 /\ op = "allocate" /\ arg = TRUE -> [stage |-> 1, w |-> w]
      [] calls.stage = 1 /\ op = "fill" /\ calls.w = w /\ arg = "part" -> [stage |-> 2, w |-> w]
      [] calls.stage = 2 /\ op = "deallocate" /\ calls.w = w -> [stage |-> 3, w |-> w]
      [] OTHER -> OverCalls

\* ---------------------------------------------------- RangeFile operations
\* RangeFileMeta::valid
metaValid(fin, avail, alloc, total) ==
    LET RECURSIVE sum(_)
        sum(S) == IF S = {} THEN 0
                  ELSE LET x == CHOOSE y \in S : TRUE IN size(x) + sum(S \ {x})
    IN sum(fin) + sum(avail) + sum(alloc) = total

\* RangeFile::is_full
is_full ==
    IF Cardinality(finishedRanges) = 1
    THEN LET f == begin(finishedRanges)
         IN f.start = 0 /\ f.end = bytesTotal - 1
    ELSE FALSE

\* what allocate hands out: the least available member, Pending at its start
popped(avail) == [begin(avail) EXCEPT !.state = kPending,
                                       !.position = begin(avail).start]

availableAfterPopKeep(avail) == avail

availableAfterPop(avail) == avail \ {begin(avail)}

\* allocate, lines 172-184: pop the least available interval or report none
allocatePop(w) ==
    IF availableRanges # {}
    THEN /\ wrange' = [wrange EXCEPT ![w] = popped(availableRanges)]
         /\ allocateRanges' = setInsert(allocateRanges, popped(availableRanges))
         /\ availableRanges' = availableAfterPop(availableRanges)
         /\ wpc' = [wpc EXCEPT ![w] = "fill"]
         /\ calls' = record("allocate", w, TRUE)
    ELSE /\ wpc' = [wpc EXCEPT ![w] = "done"]
         /\ calls' = record("allocate", w, FALSE)
         /\ UNCHANGED <<wrange, allocateRanges, availableRanges>>

\* allocate, lines 147-170: entry; an empty RangeFile starts the tiling loop
allocate(w) ==
    /\ wpc[w] = "alloc"
    /\ IF bytesTotal <= 0
       THEN /\ wpc' = [wpc EXCEPT ![w] = "done"]
            /\ calls' = record("allocate", w, FALSE)
            /\ UNCHANGED <<metaVars, mutex, last, wrange, wsize, wtmp, wecode>>
       ELSE /\ mutex = 0
            /\ IF availableRanges = {} /\ allocateRanges = {} /\ finishedRanges = {}
               THEN /\ mutex' = w
                    /\ last' = [start |-> 0, end |-> 0, position |-> 0,
                                state |-> kUnfilled]
                    /\ wpc' = [wpc EXCEPT ![w] = "tile"]
                    /\ UNCHANGED <<metaVars, wrange, wsize, wtmp, wecode, calls>>
               ELSE /\ allocatePop(w)
                    /\ UNCHANGED <<blockHint, bytesTotal, bytesProcessed,
                                   finishedRanges, mutex, last, wsize, wtmp, wecode>>
    /\ UNCHANGED <<fsVars, coVars>>

\* the start of the next tile, line 158
tileStart(l) == IF l.end > 0 THEN l.end + 1 ELSE 0

\* allocate, lines 156-164: one iteration of the do-while tiling loop
allocateTile(w) ==
    /\ wpc[w] = "tile"
    /\ mutex = w
    /\ LET s == tileStart(last)
           e == Min2(s + blockHint - 1, bytesTotal - 1)
           l == [last EXCEPT !.start = s, !.end = e]
       IN /\ last' = l
          /\ availableRanges' = setInsert(availableRanges, l)
          /\ wpc' = [wpc EXCEPT ![w] = IF e < bytesTotal - 1 THEN "tile" ELSE "pop"]
    /\ UNCHANGED <<blockHint, bytesTotal, bytesProcessed, allocateRanges,
                   finishedRanges, mutex, wrange, wsize, wtmp, wecode, calls>>
    /\ UNCHANGED <<fsVars, coVars>>

\* allocate after the tiling loop: the pop, then the lock is released
allocateAfterTile(w) ==
    /\ wpc[w] = "pop"
    /\ mutex = w
    /\ allocatePop(w)
    /\ mutex' = 0
    /\ last' = InvalidRange
    /\ UNCHANGED <<blockHint, bytesTotal, bytesProcessed, finishedRanges,
                   wsize, wtmp, wecode>>
    /\ UNCHANGED <<fsVars, coVars>>

\* ------------------------------------------------------------- fill
kSucceed == "Success"
kRuntimeError == "RuntimeError"
kFilesystemError == "FilesystemError"

advancedAlwaysFilled(r, n) ==
    [r EXCEPT !.position = r.position + n, !.state = kFilled]

\* a write that moves the end of the file and stores nothing
writtenNothing(f, pos, n) == [f EXCEPT !.size = Max2(f.size, pos + n)]

\* a file after file_seek(pos) and file_write of n bytes: it grows when the
\* write ends past its end, and the offsets pos .. pos + n - 1 hold written
\* bytes. data is the set of the maximal runs <<first, last>> of written offsets
written(f, pos, n) ==
    LET lo == pos
        hi == pos + n - 1
        T == {e \in f.data : e[1] <= hi + 1 /\ lo <= e[2] + 1}
        los == {lo} \cup {e[1] : e \in T}
        his == {hi} \cup {e[2] : e \in T}
        first == CHOOSE x \in los : \A y \in los : x <= y
        end == CHOOSE x \in his : \A y \in his : x >= y
    IN [f EXCEPT !.size = Max2(f.size, pos + n),
                 !.data = (f.data \ T) \cup {<<first, end>>}]

\* the caller's interval after a write of n bytes, lines 507-511
advanced(r, n) ==
    [r EXCEPT !.position = r.position + n,
              !.state = IF r.position + n = r.end + 1 THEN kFilled ELSE kPartial]

\* fill(range, bytes, n, error), lines 480-503: the checks and the file write
\* (seek + write under _mutexFile); fails = the write throws util::ferror.
\* filePos stays out of it: every fill(range, ...) seeks before it writes, so
\* the position one leaves is never read. Line 504, `_bytesProcessed += size`,
\* is an unlocked read-modify-write of a plain int64_t: its read ends this
\* step (the write before it touches the file alone), its write is fillStore.
\* The caller's response is the caller's to set.
fillWrite(w, n, fails) ==
    /\ wpc[w] = "fill"
    /\ LET r == wrange[w] IN
       IF ~valid(r) \/ r.state = kFilled \/ r.state = kUnfilled
       THEN /\ wecode' = [wecode EXCEPT ![w] = kRuntimeError]
            /\ wpc' = [wpc EXCEPT ![w] = "filled"]
            /\ calls' = record("fill", w, "none")
            /\ UNCHANGED <<wsize, wtmp, filePos, tempFile>>
       ELSE IF n <= 0
       THEN /\ wecode' = [wecode EXCEPT ![w] = kSucceed]
            /\ wpc' = [wpc EXCEPT ![w] = "filled"]
            /\ calls' = record("fill", w, "none")
            /\ UNCHANGED <<wsize, wtmp, filePos, tempFile>>
       ELSE IF fails
       THEN /\ wecode' = [wecode EXCEPT ![w] = kFilesystemError]
            /\ wpc' = [wpc EXCEPT ![w] = "filled"]
            /\ calls' = record("fill", w, "none")
            /\ UNCHANGED <<wsize, wtmp, filePos, tempFile>>
       ELSE /\ wecode' = [wecode EXCEPT ![w] = kSucceed]
            /\ wsize' = [wsize EXCEPT ![w] = n]
            /\ wtmp' = [wtmp EXCEPT ![w] = bytesProcessed]
            /\ wpc' = [wpc EXCEPT ![w] = "fstore"]
            /\ tempFile' = written(tempFile, r.position, n)
            /\ UNCHANGED <<filePos, calls>>
    /\ UNCHANGED <<metaVars, mutex, last, wrange>>
    /\ UNCHANGED <<opened, metaFile, metaTempFile, finalFile>>
    /\ UNCHANGED <<darchive, cpc, connections, blockSize, attribute, error, ret,
                   flag, clock, response, states, lastIndex, lastDump, promoted>>

\* fill, lines 504-511: the write of `_bytesProcessed += size`, then the
\* caller's copy advances
fillStore(w) ==
    /\ wpc[w] = "fstore"
    /\ bytesProcessed' = wtmp[w] + wsize[w]
    /\ wrange' = [wrange EXCEPT ![w] = advanced(wrange[w], wsize[w])]
    /\ wpc' = [wpc EXCEPT ![w] = "fmirror"]
    /\ wtmp' = [wtmp EXCEPT ![w] = 0]
    /\ UNCHANGED <<blockHint, bytesTotal, allocateRanges, finishedRanges,
                   availableRanges, mutex, last, wsize, wecode, calls>>
    /\ UNCHANGED <<fsVars, coVars>>

\* the canonical entry of allocated after fill has mirrored state and position
mirrored(alloc, r) ==
    {IF x.start = r.start THEN [x EXCEPT !.state = r.state, !.position = r.position]
     ELSE x : x \in alloc}

\* fill, lines 513-518: under _mutex, mirror state and position into allocated
fillMirror(w) ==
    /\ wpc[w] = "fmirror"
    /\ mutex = 0
    /\ allocateRanges' = mirrored(allocateRanges, wrange[w])
    /\ wpc' = [wpc EXCEPT ![w] = "filled"]
    /\ calls' = record("fill", w, IF wrange[w].state = kPartial THEN "part" ELSE "all")
    /\ wsize' = [wsize EXCEPT ![w] = 0]
    /\ UNCHANGED <<blockHint, bytesTotal, bytesProcessed, finishedRanges,
                   availableRanges, mutex, last, wrange, wtmp, wecode>>
    /\ UNCHANGED <<fsVars, coVars>>

\* ------------------------------------------------------------- deallocate
filledPrefixOffByOne(r) == [start |-> r.start, end |-> r.position,
                            position |-> r.position, state |-> kFilled]

\* the filled prefix a Partial interval leaves in finished, line 235
filledPrefix(r) == [start |-> r.start, end |-> r.position - 1,
                    position |-> r.position - 1, state |-> kFilled]

unfilledTailWhole(r) == Range2(r.start, r.end)

\* the tail a Partial interval returns to available, line 236
unfilledTail(r) == Range2(r.position, r.end)

\* the three sets after deallocate(r), lines 216-241
deallocated(r) ==
    IF setFind(allocateRanges, r) = {}
    THEN [ok |-> FALSE, alloc |-> allocateRanges, fin |-> finishedRanges,
          avail |-> availableRanges]
    ELSE LET alloc == allocateRanges \ setFind(allocateRanges, r) IN
         CASE r.state = kPending ->
                [ok |-> TRUE, alloc |-> alloc, fin |-> finishedRanges,
                 avail |-> setInsert(availableRanges, Range2(r.start, r.end))]
           [] r.state = kFilled ->
                [ok |-> TRUE, alloc |-> alloc,
                 fin |-> mergeRanges(setInsert(finishedRanges, r)),
                 avail |-> availableRanges]
           [] r.state = kPartial ->
                [ok |-> TRUE, alloc |-> alloc,
                 fin |-> mergeRanges(setInsert(finishedRanges, filledPrefix(r))),
                 avail |-> setInsert(availableRanges, unfilledTail(r))]
           [] OTHER ->
                [ok |-> FALSE, alloc |-> alloc, fin |-> finishedRanges,
                 avail |-> availableRanges]

\* deallocate(range) called by worker w at `from`, which continues at `to`
deallocateAt(w, from, to) ==
    /\ wpc[w] = from
    /\ mutex = 0
    /\ LET d == deallocated(wrange[w]) IN
          /\ allocateRanges' = d.alloc
          /\ finishedRanges' = d.fin
          /\ availableRanges' = d.avail
          /\ calls' = record("deallocate", w, d.ok)
    /\ wpc' = [wpc EXCEPT ![w] = to]
    /\ UNCHANGED <<blockHint, bytesTotal, bytesProcessed, mutex, last,
                   wrange, wsize, wtmp, wecode>>
    /\ UNCHANGED <<fsVars, coVars>>

\* ------------------------------------------------------------ files
NoFile == [exists |-> FALSE, size |-> 0, data |-> {}]
NoMeta == [exists |-> FALSE]
kRunning == "Running"
kFailed == "Failed"
kCancelled == "Cancelled"
NoResponse == [status |-> 0, code |-> "OK"]

\* the state of DownloadFile's variables where no DownloadFile runs
IdleCoordinator ==
    /\ darchive = NoMeta
    /\ cpc = "run"
    /\ connections = NumWorkers
    /\ blockSize = blockHint
    /\ attribute = [contentLength |-> bytesTotal, acceptRanges |-> TRUE]
    /\ error = kSucceed
    /\ ret = "none"
    /\ flag = kRunning
    /\ clock = 0
    /\ response = NoResponse
    /\ states = [w \in Workers |-> [flag |-> "None", error |-> kSucceed]]
    /\ wresponse = [w \in Workers |-> NoResponse]
    /\ lastIndex = 1
    /\ lastDump = 0
    /\ promoted = NoMeta

\* ------------------------------------------------------------ dump
\* dump, lines 413-417: `archive = *this` under _mutex
snapshot ==
    [exists |-> TRUE, blockHint |-> blockHint, bytesTotal |-> bytesTotal,
     bytesProcessed |-> bytesProcessed, allocateRanges |-> allocateRanges,
     finishedRanges |-> finishedRanges, availableRanges |-> availableRanges]

dumpCopy(from, to) ==
    /\ cpc = from
    /\ mutex = 0
    /\ darchive' = snapshot
    /\ cpc' = to
    /\ UNCHANGED <<metaVars, mutex, last, workerVars, calls, fsVars>>
    /\ UNCHANGED <<connections, blockSize, attribute, error, ret, flag, clock,
                   response, states, wresponse, lastIndex, lastDump, promoted>>

\* dump, lines 425-428: the archive is written to P.meta.temp
dumpWrite(from, to) ==
    /\ cpc = from
    /\ metaTempFile' = darchive
    /\ cpc' = to
    /\ UNCHANGED <<metaVars, mutex, last, workerVars, calls>>
    /\ UNCHANGED <<opened, filePos, tempFile, metaFile, finalFile>>
    /\ UNCHANGED <<darchive, connections, blockSize, attribute, error, ret, flag,
                   clock, response, states, wresponse, lastIndex, lastDump, promoted>>

\* dump, line 429: util::file_remove(meta)
dumpRemove(from, to) ==
    /\ cpc = from
    /\ metaFile' = NoMeta
    /\ cpc' = to
    /\ UNCHANGED <<metaVars, mutex, last, workerVars, calls>>
    /\ UNCHANGED <<opened, filePos, tempFile, metaTempFile, finalFile>>
    /\ UNCHANGED <<darchive, connections, blockSize, attribute, error, ret, flag,
                   clock, response, states, wresponse, lastIndex, lastDump, promoted>>

\* dump, line 430: util::file_move(temp, meta)
dumpMove(from, to) ==
    /\ cpc = from
    /\ metaFile' = metaTempFile
    /\ metaTempFile' = NoMeta
    /\ darchive' = NoMeta
    /\ cpc' = to
    /\ UNCHANGED <<metaVars, mutex, last, workerVars, calls>>
    /\ UNCHANGED <<opened, filePos, tempFile, finalFile>>
    /\ UNCHANGED <<connections, blockSize, attribute, error, ret, flag,
                   clock, response, states, wresponse, lastIndex, lastDump, promoted>>

\* ------------------------------------------------------------ open
inflightNone(r) == 0

\* the bytes of an in-flight interval that open takes off processed, line 308
inflight(r) == r.position - r.start

\* open, lines 306-310: every allocated interval of the archive goes back to
\* available whole, its filled prefix is taken off processed
RECURSIVE restoreLoop(_, _)
restoreLoop(rs, archive) ==
    IF rs = <<>> THEN [archive EXCEPT !.allocateRanges = {}]
    ELSE LET r == Head(rs) IN
         restoreLoop(Tail(rs),
            [archive EXCEPT
                !.availableRanges = setInsert(@, Range2(r.start, r.end)),
                !.bytesProcessed = @ - inflight(r)])

\* open, lines 302-325: the state a RangeFile(total, hint) with empty sets
\* takes from the archive
restoredFor(archive, total, hint) ==
    IF archive.blockHint = hint /\ archive.bytesTotal = total
    THEN LET a == restoreLoop(ordered(archive.allocateRanges), archive) IN
         IF metaValid(a.finishedRanges, a.availableRanges, a.allocateRanges,
                      a.bytesTotal)
         THEN [bytesProcessed |-> a.bytesProcessed,
               finishedRanges |-> a.finishedRanges,
               availableRanges |-> a.availableRanges]
         ELSE [bytesProcessed |-> 0, finishedRanges |-> {}, availableRanges |-> {}]
    ELSE [bytesProcessed |-> 0, finishedRanges |-> {}, availableRanges |-> {}]

\* RangeFile::open for a RangeFile holding (total, hint) and empty sets;
\* fails: "open" = file_open throws, "resize" = SetEndOfFile fails.
\* ok is the value open returns.
opening(total, hint, fails) ==
    LET size0 == IF tempFile.exists THEN tempFile.size ELSE 0
        data0 == IF tempFile.exists THEN tempFile.data ELSE {}
        size1 == Max2(total, 0)
        \* SetEndOfFile: what lies past the new end is gone
        data1 == {<<e[1], Min2(e[2], size1 - 1)>> : e \in {d \in data0 : d[1] < size1}}
    IN
    IF fails = "open"
    THEN [ok |-> FALSE, temp |-> tempFile, meta |-> metaFile, restore |-> FALSE]
    ELSE IF size0 # total
    THEN IF fails = "resize"
         THEN [ok |-> FALSE, temp |-> [exists |-> TRUE, size |-> size0, data |-> data0],
               meta |-> metaFile, restore |-> FALSE]
         ELSE [ok |-> TRUE, temp |-> [exists |-> TRUE, size |-> size1, data |-> data1],
               meta |-> NoMeta, restore |-> FALSE]
    ELSE [ok |-> TRUE, temp |-> [exists |-> TRUE, size |-> size0, data |-> data0],
          meta |-> metaFile, restore |-> total > 0 /\ metaFile.exists]

\* RangeFile rf(total, hint) (or reserve on a new RangeFile), then rf.open(P):
\* the RangeFile's variables afterwards
reserveAndOpen(total, hint, fails) ==
    LET o == opening(total, hint, fails) IN
    /\ blockHint' = hint
    /\ bytesTotal' = total
    /\ allocateRanges' = {}
    /\ tempFile' = o.temp
    /\ metaFile' = o.meta
    /\ opened' = o.ok
    /\ filePos' = 0
    /\ IF o.restore
       THEN /\ bytesProcessed' = restoredFor(metaFile, total, hint).bytesProcessed
            /\ finishedRanges' = restoredFor(metaFile, total, hint).finishedRanges
            /\ availableRanges' = restoredFor(metaFile, total, hint).availableRanges
       ELSE /\ bytesProcessed' = 0
            /\ finishedRanges' = {}
            /\ availableRanges' = {}

\* ------------------------------------- the workers of UtilTestForClassRangeFile
\* RangeFile rf(size, hint); N threads run
\*   while (rf.allocate(range)) { fill(range, buffer, size); deallocate(range); }
InitRF ==
    /\ blockHint \in 1..MaxBytes
    /\ bytesTotal \in 1..MaxBytes
    /\ bytesProcessed = 0
    /\ allocateRanges = {}
    /\ finishedRanges = {}
    /\ availableRanges = {}
    /\ mutex = 0
    /\ last = InvalidRange
    /\ wpc = [w \in Workers |-> "alloc"]
    /\ wrange = [w \in Workers |-> InvalidRange]
    /\ wsize = [w \in Workers |-> 0]
    /\ wtmp = [w \in Workers |-> 0]
    /\ wecode = [w \in Workers |-> kSucceed]
    /\ calls = FreshCalls
    /\ opened = TRUE
    /\ filePos = 0
    /\ tempFile = [exists |-> TRUE, size |-> bytesTotal, data |-> {}]
    /\ metaFile = NoMeta
    /\ metaTempFile = NoMeta
    /\ finalFile = NoFile
    /\ IdleCoordinator

\* the fill of the test's worker: any size from 0 to range.size()
testFill(w) ==
    /\ \E n \in 0..size(wrange[w]) : \E fails \in BOOLEAN : fillWrite(w, n, fails)
    /\ UNCHANGED wresponse

\* the scope exit of the test's loop body
testDeallocate(w) == deallocateAt(w, "filled", "alloc")

NextRF ==
    \E w \in Workers :
        \/ allocate(w)
        \/ allocateTile(w)
        \/ allocateAfterTile(w)
        \/ testFill(w)
        \/ fillStore(w)
        \/ fillMirror(w)
        \/ testDeallocate(w)

SpecRF == InitRF /\ [][NextRF]_vars

\* ----------------------------- a run that is dumped, stopped and opened again
\* The test's workers run; the coordinating thread calls dump (as DownloadFile
\* does, part_003 lines 556-562); the process stops at the dump or after it,
\* before the workers' next step (what a dump writes does not depend on the
\* steps that follow it); a new process constructs a RangeFile and opens P.
harnessDumpCopy == dumpCopy("run", "dump_write")
dumpWriteStep == dumpWrite("dump_write", "dump_remove")
dumpRemoveStep == dumpRemove("dump_remove", "dump_move")
harnessDumpMove == dumpMove("dump_move", "dumped")

crashReopen ==
    /\ cpc \in {"run", "dump_write", "dump_remove", "dump_move", "dumped"}
    /\ \E total \in {bytesTotal, bytesTotal + 1} :
       \E hint \in {blockHint, blockHint + 1} :
       \E fails \in {"none", "open", "resize"} :
           reserveAndOpen(total, hint, fails)
    /\ mutex' = 0
    /\ last' = InvalidRange
    /\ wpc' = [w \in Workers |-> "none"]
    /\ wrange' = [w \in Workers |-> InvalidRange]
    /\ wsize' = [w \in Workers |-> 0]
    /\ wtmp' = [w \in Workers |-> 0]
    /\ wecode' = [w \in Workers |-> kSucceed]
    /\ calls' = OverCalls
    /\ darchive' = NoMeta
    /\ cpc' = "reopened"
    /\ UNCHANGED <<metaTempFile, finalFile, connections, blockSize, attribute,
                   error, ret, flag, clock, response, states, wresponse,
                   lastIndex, lastDump, promoted>>

NextRestore ==
    \/ (cpc = "run" /\ NextRF)
    \/ harnessDumpCopy
    \/ dumpWriteStep
    \/ dumpRemoveStep
    \/ harnessDumpMove
    \/ crashReopen

SpecRestore == InitRF /\ [][NextRestore]_vars

\* ------------------------------------------------ claims on the RangeFile
\* the workers that hold an interval: allocate returned it and their
\* deallocate has not run yet
holding(w) ==
    wpc[w] \in {"fill", "fstore", "fmirror", "filled", "dealloc", "dealloc_ret"}

allRanges == availableRanges \cup allocateRanges \cup finishedRanges

\* C1: at every moment the intervals that allocate has returned to different
\* workers and that are not yet deallocated do not share a byte offset.
C1_ExclusiveAllocation ==
    \A w1 \in Workers : \A w2 \in Workers :
        (w1 # w2 /\ holding(w1) /\ holding(w2))
            => (valid(wrange[w1]) /\ valid(wrange[w2])
                /\ ~intersected(wrange[w1], wrange[w2]))

C1_Witness ==
    \E w1 \in Workers : \E w2 \in Workers :
        w1 # w2 /\ holding(w1) /\ holding(w2) /\ wrange[w1].state = kPartial

\* C2: once an allocate has completed, after every call of a sequence whose
\* fills do not overshoot, no two members of available, allocated and finished
\* share a byte and the sizes of all members sum to bytesTotal.
C2_Disjointness ==
    calls.stage >= 1 =>
        /\ \A a \in allRanges : \A b \in allRanges :
               a # b => (valid(a) /\ valid(b) /\ ~intersected(a, b))
        /\ availableRanges \cap allocateRanges = {}
        /\ availableRanges \cap finishedRanges = {}
        /\ allocateRanges \cap finishedRanges = {}
        /\ metaValid(finishedRanges, availableRanges, allocateRanges, bytesTotal)

C2_Witness ==
    /\ calls.stage = 4
    /\ availableRanges # {} /\ allocateRanges # {} /\ finishedRanges # {}
    /\ \E r \in availableRanges : r.start > 0 /\ \E f \in finishedRanges : f.end + 1 = r.start

\* C3: after every deallocate, finished holds no two members that intersect
\* or are adjacent.
C3_Coalesced ==
    \A a \in finishedRanges : \A b \in finishedRanges :
        a # b => ~mergeable(a, b)

C3_Witness ==
    /\ \E f \in finishedRanges : size(f) > blockHint /\ f.position = f.end
    /\ availableRanges # {}

\* C4: when every worker has left its allocate/fill/deallocate loop, finished
\* is the single entry [0, bytesTotal-1] with position bytesTotal, available
\* and allocated are empty and is_full() is true.
C4_Completion ==
    (\A w \in Workers : wpc[w] = "done") =>
        /\ finishedRanges = {[start |-> 0, end |-> bytesTotal - 1,
                              position |-> bytesTotal, state |-> kFilled]}
        /\ availableRanges = {}
        /\ allocateRanges = {}
        /\ is_full

C4_Witness ==
    /\ \A w \in Workers : wpc[w] = "done"
    /\ bytesTotal > blockHint
    /\ \E w \in Workers : wrange[w].start > 0 /\ wrange[w].start % blockHint # 0

\* C5: on a fresh RangeFile, allocate returning [start, end], a fill of half
\* bytes (0 < half < size) and deallocate leave [start+half, end] Unfilled in
\* available, [start, start+half-1] Filled in finished, no entry for the
\* interval in allocated, and processed = half.
C5_PartialRecovery ==
    calls.stage = 3 =>
        LET r == wrange[calls.w] IN
        /\ r.position > r.start /\ r.position <= r.end
        /\ \E x \in availableRanges :
               x.start = r.position /\ x.end = r.end /\ x.state = kUnfilled
        /\ \E x \in finishedRanges :
               x.start = r.start /\ x.end = r.position - 1 /\ x.state = kFilled
        /\ ~\E x \in allocateRanges : x.start = r.start \/ x.end = r.end
        /\ bytesProcessed = r.position - r.start

C5_Witness ==
    calls.stage = 3 /\ size(wrange[calls.w]) >= 3

RECURSIVE inflightSum(_)
inflightSum(S) ==
    IF S = {} THEN 0
    ELSE LET r == CHOOSE x \in S : TRUE IN (r.position - r.start) + inflightSum(S \ {r})

\* the snapshot in P.meta is the one the last open has restored
restoredSnapshot ==
    /\ cpc = "reopened"
    /\ opened
    /\ metaFile.exists
    /\ metaFile.blockHint = blockHint
    /\ metaFile.bytesTotal = bytesTotal

\* C6: after open has restored a snapshot with matching (blockHint,
\* bytesTotal) that holds allocated entries, each such entry is in available
\* as the whole [start, end], allocated is empty, finished is the snapshot's
\* finished, and processed is the snapshot's processed minus the sum of
\* (position - start) over those entries.
C6_RestoreDropsInFlight ==
    (restoredSnapshot /\ metaFile.allocateRanges # {}) =>
        /\ \A r \in metaFile.allocateRanges :
               Range2(r.start, r.end) \in availableRanges
        /\ allocateRanges = {}
        /\ finishedRanges = metaFile.finishedRanges
        /\ bytesProcessed =
               metaFile.bytesProcessed - inflightSum(metaFile.allocateRanges)

C6_Witness ==
    /\ restoredSnapshot
    /\ finishedRanges # {}
    /\ \E r \in metaFile.allocateRanges : r.position > r.start
    /\ \E r \in metaFile.allocateRanges : r.position = r.start

\* ------------------------------------------------------------ DownloadFile
kNetworkError == "NetworkError"
kOperationInterrupted == "OperationInterrupted"
kOperationFailed == "OperationFailed"
kFileNotFound == "FileNotFound"
kServerError == "ServerError"

\* std::error_code::value() of each kind, the key order of arbitration's map
errorValue(kind) ==
    CASE kind = kSucceed -> 0
      [] kind = kRuntimeError -> 3
      [] kind = kOperationFailed -> 42
      [] kind = kOperationInterrupted -> 43
      [] kind = kFilesystemError -> 81
      [] kind = kFileNotFound -> 97
      [] kind = kNetworkError -> 129
      [] kind = kServerError -> 161

MiB == 1024 * 1024
DefaultHint == MiB                  \* 0x100000
SmallLimit == 10 * 1024 * 1024      \* is_small: contentLength below this
HalfBlock == 5 * MiB                \* a blockSize that tiles SmallLimit in two
WholeBlock == 16 * MiB              \* a blockSize no smaller than SmallLimit

\* the Content-Length values a probe reports: unknown, empty, small, large
ContentLengths == {-1, 0, 1024, 4 * MiB, SmallLimit}
BlockSizes == {1, HalfBlock, WholeBlock}

\* the snapshot of a RangeFile(total, hint) whose every byte is finished
FullMeta(total, hint) ==
    [exists |-> TRUE, blockHint |-> hint, bytesTotal |-> total,
     bytesProcessed |-> total, allocateRanges |-> {},
     finishedRanges |-> {[start |-> 0, end |-> total - 1,
                          position |-> total, state |-> kFilled]},
     availableRanges |-> {}]

\* the snapshot of a RangeFile(total, hint) after its first tile only
PartialMeta(total, hint) ==
    [exists |-> TRUE, blockHint |-> hint, bytesTotal |-> total,
     bytesProcessed |-> hint, allocateRanges |-> {},
     finishedRanges |-> {[start |-> 0, end |-> hint - 1,
                          position |-> hint, state |-> kFilled]},
     availableRanges |-> {Range2(hint, total - 1)}]

\* what an earlier run may have left at P, P.temp and P.meta
Leftovers ==
    {[temp |-> NoFile, meta |-> NoMeta, final |-> NoFile],
     [temp |-> NoFile, meta |-> NoMeta, final |-> [exists |-> TRUE, size |-> 1024,
                                                      data |-> {<<0, 1023>>}]],
     [temp |-> [exists |-> TRUE, size |-> SmallLimit, data |-> {<<0, HalfBlock - 1>>}],
      meta |-> PartialMeta(SmallLimit, HalfBlock), final |-> NoFile],
     [temp |-> [exists |-> TRUE, size |-> SmallLimit, data |-> {<<0, SmallLimit - 1>>}],
      meta |-> FullMeta(SmallLimit, HalfBlock), final |-> NoFile],
     [temp |-> [exists |-> TRUE, size |-> SmallLimit, data |-> {<<0, SmallLimit - 1>>}],
      meta |-> FullMeta(SmallLimit, DefaultHint), final |-> NoFile]}

\* HandleRequestError, lines 187-270: the error it leaves and its result
HandleRequestError(resp, fserr, flagv, err) ==
    IF fserr # kSucceed THEN [error |-> fserr, fatal |-> TRUE]
    ELSE CASE resp.code \in {"ABORTED_BY_CALLBACK", "AGAIN"} ->
                [error |-> IF flagv = kCancelled THEN kOperationInterrupted ELSE err,
                 fatal |-> TRUE]
           [] resp.code \in {"SEND_ERROR", "RECV_ERROR", "COULDNT_RESOLVE_HOST",
                             "COULDNT_CONNECT", "PROXY", "OPERATION_TIMEDOUT",
                             "SSL_CONNECT_ERROR"} ->
                [error |-> kNetworkError, fatal |-> FALSE]
           [] resp.code \in {"UNKNOWN_ERROR", "GOT_NOTHING"} ->
                [error |-> kNetworkError, fatal |-> FALSE]
           [] resp.code = "OK" ->
                IF resp.status = 200 \/ resp.status = 206
                THEN [error |-> err, fatal |-> FALSE]
                ELSE IF resp.status = 404
                THEN [error |-> kFileNotFound, fatal |-> TRUE]
                ELSE IF resp.status = 503
                THEN [error |-> kServerError, fatal |-> TRUE]
                ELSE IF 400 <= resp.status
                THEN [error |-> kOperationFailed, fatal |-> FALSE]
                ELSE [error |-> err, fatal |-> FALSE]
           [] OTHER -> [error |-> kRuntimeError, fatal |-> FALSE]

rfLocal == <<mutex, last, workerVars, calls>>

\* the value of `return !error`
not(e) == IF e = kSucceed THEN "true" ELSE "false"

\* DownloadFile is called with config.blockSize among `sizes`: a default
\* RangeFile, no worker, the caller's error
InitDLWith(sizes) ==
    /\ connections \in {1, NumWorkers}
    /\ blockSize \in sizes
    /\ blockHint = DefaultHint
    /\ bytesTotal = -1
    /\ bytesProcessed = 0
    /\ allocateRanges = {}
    /\ finishedRanges = {}
    /\ availableRanges = {}
    /\ mutex = 0
    /\ last = InvalidRange
    /\ wpc = [w \in Workers |-> "none"]
    /\ wrange = [w \in Workers |-> InvalidRange]
    /\ wsize = [w \in Workers |-> 0]
    /\ wtmp = [w \in Workers |-> 0]
    /\ wecode = [w \in Workers |-> kSucceed]
    /\ calls = OverCalls
    /\ opened = FALSE
    /\ filePos = 0
    /\ \E l \in Leftovers :
          /\ tempFile = l.temp
          /\ metaFile = l.meta
          /\ finalFile = l.final
          /\ (l.meta.exists /\ l.meta.blockHint = DefaultHint) => blockSize = WholeBlock
    /\ metaTempFile = NoMeta
    /\ darchive = NoMeta
    /\ cpc = "entry"
    /\ attribute = [contentLength |-> -1, acceptRanges |-> FALSE]
    /\ error \in {kSucceed, kNetworkError}
    /\ ret = "none"
    /\ flag = kRunning
    /\ clock = 0
    /\ response = NoResponse
    /\ states = [w \in Workers |-> [flag |-> "None", error |-> kSucceed]]
    /\ wresponse = [w \in Workers |-> NoResponse]
    /\ lastIndex = 1
    /\ lastDump = 0
    /\ promoted = NoMeta

InitDL == InitDLWith(BlockSizes)

\* lines 280-300: error.clear(), then the probe unless connections is 1
enter ==
    /\ cpc = "entry"
    /\ error' = kSucceed
    /\ cpc' = IF connections > 1 THEN "probe" ELSE "cleanup"
    /\ UNCHANGED <<metaVars, rfLocal, fsVars>>
    /\ UNCHANGED <<darchive, connections, blockSize, attribute, ret, flag, clock,
                   response, states, wresponse, lastIndex, lastDump, promoted>>

\* steady_clock passes config.timeout: measure(start) goes from below to equal
\* to above
clockTick ==
    /\ cpc \notin {"entry", "done"}
    /\ clock < 2
    /\ clock' = clock + 1
    /\ UNCHANGED <<metaVars, rfLocal, fsVars>>
    /\ UNCHANGED <<darchive, cpc, connections, blockSize, attribute, error, ret,
                   flag, response, states, wresponse, lastIndex, lastDump, promoted>>

\* the probe loop retrying while the elapsed time is at most the timeout
probeRetriesAtTimeout(result, attr) ==
    /\ cpc = "probe"
    /\ IF result = "OK"
       THEN /\ attribute' = attr
            /\ error' = kSucceed
            /\ cpc' = "cleanup"
            /\ ret' = ret
       ELSE /\ attribute' = [contentLength |-> -1, acceptRanges |-> FALSE]
            /\ error' = result
            /\ IF result = kNetworkError /\ clock <= 1
               THEN cpc' = "probe" /\ ret' = ret
               ELSE cpc' = "done" /\ ret' = "false"
    /\ UNCHANGED <<metaVars, rfLocal, fsVars>>
    /\ UNCHANGED <<darchive, connections, blockSize, flag, clock,
                   response, states, wresponse, lastIndex, lastDump, promoted>>

\* lines 303-326: one iteration of the probe loop. result = "OK" with the
\* attribute the headers give, or the error kind GetFileAttribute leaves
probe(result, attr) ==
    /\ cpc = "probe"
    /\ IF result = "OK"
       THEN /\ attribute' = attr
            /\ error' = kSucceed
            /\ cpc' = "cleanup"
            /\ ret' = ret
       ELSE /\ attribute' = [contentLength |-> -1, acceptRanges |-> FALSE]
            /\ error' = result
            /\ IF result = kNetworkError /\ clock = 0
               THEN cpc' = "probe" /\ ret' = ret
               ELSE cpc' = "done" /\ ret' = "false"
    /\ UNCHANGED <<metaVars, rfLocal, fsVars>>
    /\ UNCHANGED <<darchive, connections, blockSize, flag, clock,
                   response, states, wresponse, lastIndex, lastDump, promoted>>

probeAny ==
    \E result \in {"OK", kNetworkError, kRuntimeError} :
    \E cl \in ContentLengths : \E ar \in BOOLEAN :
        probe(result, [contentLength |-> cl, acceptRanges |-> ar])

\* lines 333-339: an existing P is removed; fails = file_exist or file_remove
\* reports an error
cleanup(fails) ==
    /\ cpc = "cleanup"
    /\ IF fails
       THEN /\ error' = kFilesystemError
            /\ ret' = "false"
            /\ cpc' = "done"
            /\ UNCHANGED finalFile
       ELSE /\ finalFile' = NoFile
            /\ cpc' = "select"
            /\ UNCHANGED <<error, ret>>
    /\ UNCHANGED <<metaVars, rfLocal, opened, filePos, tempFile, metaFile, metaTempFile>>
    /\ UNCHANGED <<darchive, connections, blockSize, attribute, flag, clock,
                   response, states, wresponse, lastIndex, lastDump, promoted>>

cleanupAny == \E fails \in BOOLEAN : cleanup(fails)

\* is_small without its `contentLength > 0`
is_smallBelowOnly == attribute.contentLength < SmallLimit

\* lines 353-358: the condition under which the direct mode is taken
is_small == attribute.contentLength > 0 /\ attribute.contentLength < SmallLimit

directMode ==
    \/ attribute.contentLength = -1
    \/ attribute.contentLength <= blockSize
    \/ ~attribute.acceptRanges
    \/ is_small

\* lines 377-383 and 424-428: reserve, then open; fails as in `opening`
openWith(total, hint, fails, to) ==
    /\ cpc = "select"
    /\ reserveAndOpen(total, hint, fails)
    /\ IF opening(total, hint, fails).ok
       THEN /\ cpc' = to
            /\ UNCHANGED <<error, ret>>
       ELSE /\ error' = kFilesystemError
            /\ ret' = "false"
            /\ cpc' = "done"
    /\ UNCHANGED <<rfLocal, metaTempFile, finalFile>>
    /\ UNCHANGED <<darchive, connections, blockSize, attribute, flag, clock,
                   response, states, wresponse, lastIndex, lastDump, promoted>>

openDirect ==
    /\ directMode
    /\ \E fails \in {"none", "open", "resize"} :
           openWith(attribute.contentLength, DefaultHint, fails, "dget")

openMulti ==
    /\ ~directMode
    /\ \E fails \in {"none", "open", "resize"} :
           openWith(attribute.contentLength, blockSize, fails, "spawn")

\* the body lengths of the streaming GET: none, the probed length, one byte
\* over; 1024 bytes where the probe gave no positive length
DirectBodies ==
    IF attribute.contentLength > 0
    THEN {0, attribute.contentLength, attribute.contentLength + 1}
    ELSE {0, 1024}

\* the most bytes the server is let to deliver to one direct download: two of
\* the longest bodies
MaxDelivered ==
    IF attribute.contentLength > 0 THEN 2 * attribute.contentLength + 2 ELSE 2048

\* the responses of the streaming GET; ABORTED_BY_CALLBACK is what the
\* progress callback's false gives
DirectResponses ==
    {[status |-> 200, code |-> "OK"], [status |-> 404, code |-> "OK"],
     [status |-> 500, code |-> "OK"], [status |-> 0, code |-> "RECV_ERROR"],
     [status |-> 200, code |-> "ABORTED_BY_CALLBACK"]}

\* lines 386-406: one iteration of the direct loop. The body's n bytes go
\* through fill(bytes, size) at the file position; fails = a write throws
directGet(resp, n, fails) ==
    /\ cpc = "dget"
    /\ LET wn == IF fails THEN 0 ELSE n
           ecode == IF fails /\ n > 0 THEN kFilesystemError ELSE kSucceed
           flagv == IF resp.code = "ABORTED_BY_CALLBACK" THEN kCancelled ELSE flag
           h == HandleRequestError(resp, ecode, flagv, error)
       IN /\ filePos + wn <= MaxDelivered
          /\ tempFile' = IF wn > 0 THEN written(tempFile, filePos, wn) ELSE tempFile
          /\ filePos' = filePos + wn
          /\ bytesProcessed' = bytesProcessed + wn
          /\ flag' = flagv
          /\ response' = resp
          /\ error' = h.error
          /\ cpc' = IF h.fatal THEN "dreturn"
                    ELSE IF h.error = kNetworkError /\ clock = 0 THEN "dget"
                    ELSE "dreturn"
    /\ UNCHANGED <<blockHint, bytesTotal, allocateRanges, finishedRanges,
                   availableRanges, rfLocal, opened, metaFile, metaTempFile, finalFile>>
    /\ UNCHANGED <<darchive, connections, blockSize, attribute, ret, clock,
                   states, wresponse, lastIndex, lastDump, promoted>>

directGetAny ==
    \E resp \in DirectResponses : \E n \in DirectBodies : \E fails \in BOOLEAN :
        directGet(resp, n, fails)

\* lines 394 and 419: `return !error` of the direct mode; its operand is
\* evaluated before the scope exit runs
directReturn ==
    /\ cpc = "dreturn"
    /\ ret' = not(error)
    /\ cpc' = "close"
    /\ UNCHANGED <<metaVars, rfLocal, fsVars>>
    /\ UNCHANGED <<darchive, connections, blockSize, attribute, error, flag, clock,
                   response, states, wresponse, lastIndex, lastDump, promoted>>

\* RangeFile::close(finished, ecode), lines 347-399; moveFails = file_move
\* throws, removeFails = file_remove of an existing P.meta throws
closed(finished, moveFails, removeFails) ==
    IF finished /\ bytesTotal > 0 /\ ~is_full
    THEN [ecode |-> kRuntimeError, moved |-> FALSE, removed |-> FALSE, cleared |-> FALSE]
    ELSE IF finished /\ moveFails
    THEN [ecode |-> kFilesystemError, moved |-> FALSE, removed |-> FALSE, cleared |-> FALSE]
    ELSE IF finished /\ removeFails /\ metaFile.exists
    THEN [ecode |-> kFilesystemError, moved |-> TRUE, removed |-> FALSE, cleared |-> FALSE]
    ELSE [ecode |-> kSucceed, moved |-> finished, removed |-> finished, cleared |-> TRUE]

\* lines 342-351: the scope exit, `rf && !rf.close(!error, ecode)`
closeAtExit(moveFails, removeFails) ==
    /\ cpc = "close"
    /\ cpc' = IF ret = "none" THEN "return" ELSE "done"
    /\ IF ~opened
       THEN UNCHANGED <<metaVars, fsVars, error, promoted>>
       ELSE LET c == closed(error = kSucceed, moveFails, removeFails) IN
            /\ opened' = FALSE
            /\ error' = IF error # kSucceed THEN error ELSE c.ecode
            /\ finalFile' = IF c.moved THEN tempFile ELSE finalFile
            /\ tempFile' = IF c.moved THEN NoFile ELSE tempFile
            /\ promoted' = IF c.moved
                           THEN [exists |-> TRUE, bytesTotal |-> bytesTotal,
                                 finishedRanges |-> finishedRanges,
                                 size |-> tempFile.size]
                           ELSE promoted
            /\ metaFile' = IF c.removed THEN NoMeta ELSE metaFile
            /\ allocateRanges' = IF c.cleared THEN {} ELSE allocateRanges
            /\ finishedRanges' = IF c.cleared THEN {} ELSE finishedRanges
            /\ availableRanges' = IF c.cleared THEN {} ELSE availableRanges
            /\ blockHint' = IF c.cleared THEN DefaultHint ELSE blockHint
            /\ bytesTotal' = IF c.cleared THEN -1 ELSE bytesTotal
            /\ bytesProcessed' = IF c.cleared THEN 0 ELSE bytesProcessed
            /\ UNCHANGED <<filePos, metaTempFile>>
    /\ UNCHANGED <<rfLocal, darchive, connections, blockSize, attribute, ret, flag,
                   clock, response, states, wresponse, lastIndex, lastDump>>

closeAny ==
    \E moveFails \in BOOLEAN : \E removeFails \in BOOLEAN :
        closeAtExit(moveFails, removeFails)

\* line 576: `return !error` after the try block, the scope exit has run
finalReturn ==
    /\ cpc = "return"
    /\ ret' = not(error)
    /\ cpc' = "done"
    /\ UNCHANGED <<metaVars, rfLocal, fsVars>>
    /\ UNCHANGED <<darchive, connections, blockSize, attribute, error, flag, clock,
                   response, states, wresponse, lastIndex, lastDump, promoted>>

\* ------------------------------------------------- multi mode: the workers
\* lines 501-507: the threads are created, each runs `worker`
spawn ==
    /\ cpc = "spawn"
    /\ wpc' = [w \in Workers |-> "start"]
    /\ lastIndex' = 1
    /\ lastDump' = clock
    /\ cpc' = "loop"
    /\ UNCHANGED <<metaVars, mutex, last, wrange, wsize, wtmp, wecode, calls, fsVars>>
    /\ UNCHANGED <<darchive, connections, blockSize, attribute, error, ret, flag,
                   clock, response, states, wresponse, promoted>>

\* line 444: state.flag = kThreadRunning
workerStart(w) ==
    /\ wpc[w] = "start"
    /\ states' = [states EXCEPT ![w].flag = "Running"]
    /\ wpc' = [wpc EXCEPT ![w] = "loop"]
    /\ UNCHANGED <<metaVars, mutex, last, wrange, wsize, wtmp, wecode, calls, fsVars>>
    /\ UNCHANGED <<darchive, cpc, connections, blockSize, attribute, error, ret,
                   flag, clock, response, wresponse, lastIndex, lastDump, promoted>>

\* the loop condition without its test of the flag
workerLoopIgnoresFlag(w) ==
    /\ wpc[w] = "loop"
    /\ wpc' = [wpc EXCEPT ![w] = "alloc"]
    /\ wrange' = [wrange EXCEPT ![w] = InvalidRange]
    /\ UNCHANGED <<metaVars, mutex, last, wsize, wtmp, wecode, calls, fsVars>>
    /\ UNCHANGED coVars

\* line 460: `flag == kRunning &&` of the loop condition; allocate follows.
\* `range` is dead here (allocate overwrites it or the loop ends): it is
\* written as the invalid interval
workerLoop(w) ==
    /\ wpc[w] = "loop"
    /\ wpc' = [wpc EXCEPT ![w] = IF flag = kRunning THEN "alloc" ELSE "done"]
    /\ wrange' = [wrange EXCEPT ![w] = InvalidRange]
    /\ UNCHANGED <<metaVars, mutex, last, wsize, wtmp, wecode, calls, fsVars>>
    /\ UNCHANGED coVars

\* the responses of a ranged GET: the content, a fatal status, a transport
\* error
WorkerResponses ==
    {[status |-> 206, code |-> "OK"], [status |-> 404, code |-> "OK"],
     [status |-> 0, code |-> "RECV_ERROR"]}

\* the body lengths of a ranged GET for interval r: none, or the interval
WorkerBodies(r) == {0, size(r)}

\* lines 466-483: session->Get(), then fill when the status is 200 or 206
workerGet(w, resp, n, fails) ==
    /\ wpc[w] = "fill"
    /\ wresponse' = [wresponse EXCEPT ![w] = resp]
    /\ IF resp.status = 200 \/ resp.status = 206
       THEN fillWrite(w, n, fails)
       ELSE /\ wecode' = [wecode EXCEPT ![w] = kSucceed]
            /\ wpc' = [wpc EXCEPT ![w] = "filled"]
            /\ UNCHANGED <<metaVars, mutex, last, wrange, wsize, wtmp, calls, fsVars>>
            /\ UNCHANGED <<darchive, cpc, connections, blockSize, attribute, error,
                           ret, flag, clock, response, states, lastIndex, lastDump, promoted>>

workerGetAny(w) ==
    \E resp \in WorkerResponses : \E n \in WorkerBodies(wrange[w]) :
    \E fails \in BOOLEAN : workerGet(w, resp, n, fails)

\* the classification without its verdict: the loop goes on after any error
workerHandleNeverFatal(w) ==
    /\ wpc[w] = "filled"
    /\ LET h == HandleRequestError(wresponse[w], wecode[w], flag, states[w].error) IN
          /\ states' = [states EXCEPT ![w].error = h.error]
          /\ wpc' = [wpc EXCEPT ![w] = "dealloc"]
    /\ wecode' = [wecode EXCEPT ![w] = kSucceed]
    /\ wresponse' = [wresponse EXCEPT ![w] = NoResponse]
    /\ UNCHANGED <<metaVars, mutex, last, wrange, wsize, wtmp, calls, fsVars>>
    /\ UNCHANGED <<darchive, cpc, connections, blockSize, attribute, error, ret,
                   flag, clock, response, lastIndex, lastDump, promoted>>

\* lines 485-488: HandleRequestError(response, ecode, flag, state.error)
workerHandle(w) ==
    /\ wpc[w] = "filled"
    /\ LET h == HandleRequestError(wresponse[w], wecode[w], flag, states[w].error) IN
          /\ states' = [states EXCEPT ![w].error = h.error]
          /\ wpc' = [wpc EXCEPT ![w] = IF h.fatal THEN "dealloc_ret" ELSE "dealloc"]
    /\ wecode' = [wecode EXCEPT ![w] = kSucceed]
    /\ wresponse' = [wresponse EXCEPT ![w] = NoResponse]
    /\ UNCHANGED <<metaVars, mutex, last, wrange, wsize, wtmp, calls, fsVars>>
    /\ UNCHANGED <<darchive, cpc, connections, blockSize, attribute, error, ret,
                   flag, clock, response, lastIndex, lastDump, promoted>>

\* lines 462-464: the scope exit of the loop body, at the end of an iteration
workerDeallocate(w) == deallocateAt(w, "dealloc", "loop")

\* the `return` of line 487 without the scope exit of the loop body
workerReturnKeepsInterval(w) ==
    /\ wpc[w] = "dealloc_ret"
    /\ wpc' = [wpc EXCEPT ![w] = "done"]
    /\ UNCHANGED <<metaVars, mutex, last, wrange, wsize, wtmp, wecode, calls, fsVars>>
    /\ UNCHANGED coVars

\* the same scope exit on the `return` of line 487
workerDeallocateReturn(w) == deallocateAt(w, "dealloc_ret", "done")

\* lines 446-453: the worker's scope exit, then the thread ends
workerExit(w) ==
    /\ wpc[w] = "done"
    /\ states' = [states EXCEPT ![w].flag =
                     IF states[w].error # kSucceed THEN "Interrupted" ELSE "Finished"]
    /\ wpc' = [wpc EXCEPT ![w] = "ended"]
    /\ UNCHANGED <<metaVars, mutex, last, wrange, wsize, wtmp, wecode, calls, fsVars>>
    /\ UNCHANGED <<darchive, cpc, connections, blockSize, attribute, error, ret,
                   flag, clock, response, wresponse, lastIndex, lastDump, promoted>>

worker(w) ==
    \/ workerStart(w)
    \/ workerLoop(w)
    \/ allocate(w)
    \/ allocateTile(w)
    \/ allocateAfterTile(w)
    \/ workerGetAny(w)
    \/ fillStore(w)
    \/ fillMirror(w)
    \/ workerHandle(w)
    \/ workerDeallocate(w)
    \/ workerDeallocateReturn(w)
    \/ workerExit(w)

\* --------------------------------------------- multi mode: the coordinator
\* line 508: the loop condition; is_full locks _mutex
coordLoop ==
    /\ cpc = "loop"
    /\ mutex = 0
    /\ cpc' = IF flag = kRunning /\ ~is_full THEN "tick" ELSE "join"
    /\ UNCHANGED <<metaVars, rfLocal, fsVars>>
    /\ UNCHANGED <<darchive, connections, blockSize, attribute, error, ret, flag,
                   clock, response, states, wresponse, lastIndex, lastDump, promoted>>

\* how many states carry the error kind k
errorCount(k) == Cardinality({w \in Workers : states[w].error = k})

\* every error kind of the library that the model names
ErrorKinds ==
    {kSucceed, kRuntimeError, kOperationFailed, kOperationInterrupted,
     kFilesystemError, kFileNotFound, kNetworkError, kServerError}

\* the scan keeping the least count instead of the greatest
modalErrorLeast ==
    CHOOSE k \in ErrorKinds :
        \A j \in ErrorKinds :
            \/ errorCount(k) < errorCount(j)
            \/ errorCount(k) = errorCount(j) /\ errorValue(k) >= errorValue(j)

\* lines 527-529: the kind the scan of `counts` in key order ends on
modalError ==
    CHOOSE k \in {states[w].error : w \in Workers} :
        \A j \in {states[w].error : w \in Workers} :
            \/ errorCount(k) > errorCount(j)
            \/ errorCount(k) = errorCount(j) /\ errorValue(k) >= errorValue(j)

\* lines 512-553: the skip of a finished worker, the arbitration after the
\* timeout and the callback; cb = what callback returns
coordTick(cb) ==
    /\ cpc = "tick"
    /\ LET idx == IF states[lastIndex].flag = "Finished"
                  THEN lastIndex + 1 ELSE lastIndex IN
       /\ lastIndex' = idx
       /\ IF idx > NumWorkers
          THEN cpc' = "join" /\ UNCHANGED <<flag, error>>
          ELSE IF /\ clock = 2
                  /\ states[idx].error # kSucceed
                  /\ errorCount(kSucceed) = 0
          THEN /\ flag' = kFailed
               /\ error' = modalError
               /\ cpc' = "join"
          ELSE IF ~cb
          THEN /\ flag' = kCancelled
               /\ error' = kOperationInterrupted
               /\ cpc' = "join"
          ELSE cpc' = "dumpq" /\ UNCHANGED <<flag, error>>
    /\ UNCHANGED <<metaVars, rfLocal, fsVars>>
    /\ UNCHANGED <<darchive, connections, blockSize, attribute, ret, clock,
                   response, states, wresponse, lastDump, promoted>>

coordTickAny == \E cb \in BOOLEAN : coordTick(cb)

\* lines 556-564: less than 5000 ms since the last dump: only the sleep
coordSleep ==
    /\ cpc = "dumpq"
    /\ cpc' = "loop"
    /\ UNCHANGED <<metaVars, rfLocal, fsVars>>
    /\ UNCHANGED <<darchive, connections, blockSize, attribute, error, ret, flag,
                   clock, response, states, wresponse, lastIndex, lastDump, promoted>>

\* lines 556-564: the dump, then the sleep. measure(lastDump) >= 5000 needs
\* the clock to have moved since lastDump. dump() as one step: the copy under
\* _mutex, then P.meta.temp written, P.meta removed, P.meta.temp renamed
coordDump ==
    /\ cpc = "dumpq"
    /\ clock > lastDump
    /\ mutex = 0
    /\ metaFile' = snapshot
    /\ lastDump' = clock
    /\ cpc' = "loop"
    /\ UNCHANGED <<metaVars, rfLocal, opened, filePos, tempFile, metaTempFile, finalFile>>
    /\ UNCHANGED <<darchive, connections, blockSize, attribute, error, ret, flag,
                   clock, response, states, wresponse, lastIndex, promoted>>

\* lines 567-568: every thread is joined
coordJoin ==
    /\ cpc = "join"
    /\ \A w \in Workers : wpc[w] = "ended"
    /\ cpc' = "close"
    /\ UNCHANGED <<metaVars, rfLocal, fsVars>>
    /\ UNCHANGED <<darchive, connections, blockSize, attribute, error, ret, flag,
                   clock, response, states, wresponse, lastIndex, lastDump, promoted>>

NextDL ==
    \/ enter
    \/ clockTick
    \/ probeAny
    \/ cleanupAny
    \/ openDirect
    \/ openMulti
    \/ directGetAny
    \/ directReturn
    \/ closeAny
    \/ finalReturn
    \/ spawn
    \/ coordLoop
    \/ coordTickAny
    \/ coordSleep
    \/ coordDump
    \/ coordJoin
    \/ \E w \in Workers : worker(w)

SpecDL == InitDL /\ [][NextDL]_vars

\* ----------------------------------------------- the healthy multi-mode run
\* The probe reports a length that selects the multi mode, every ranged GET
\* returns 206 with exactly the requested bytes, no filesystem call fails and
\* the callback returns true.
healthyResponse == [status |-> 206, code |-> "OK"]

probeHealthy == probe("OK", [contentLength |-> SmallLimit, acceptRanges |-> TRUE])

cleanupHealthy == cleanup(FALSE)

openHealthy ==
    /\ ~directMode
    /\ openWith(attribute.contentLength, blockSize, "none", "spawn")

workerGetHealthy(w) == workerGet(w, healthyResponse, size(wrange[w]), FALSE)

workerHealthy(w) ==
    \/ workerStart(w)
    \/ workerLoop(w)
    \/ allocate(w)
    \/ allocateTile(w)
    \/ allocateAfterTile(w)
    \/ workerGetHealthy(w)
    \/ fillStore(w)
    \/ fillMirror(w)
    \/ workerHandle(w)
    \/ workerDeallocate(w)
    \/ workerExit(w)

coordTickHealthy == coordTick(TRUE)

closeHealthy == closeAtExit(FALSE, FALSE)

coordinatorHealthy ==
    \/ enter
    \/ probeHealthy
    \/ cleanupHealthy
    \/ openHealthy
    \/ spawn
    \/ coordLoop
    \/ coordTickHealthy
    \/ coordSleep
    \/ coordDump
    \/ coordJoin
    \/ closeHealthy
    \/ finalReturn

InitHealthy ==
    /\ InitDL
    /\ connections = NumWorkers
    /\ blockSize \in {1, HalfBlock}

NextHealthy ==
    \/ coordinatorHealthy
    \/ clockTick
    \/ \E w \in Workers : workerHealthy(w)

\* every thread that can take a step eventually takes one
SpecHealthy ==
    /\ InitHealthy
    /\ [][NextHealthy]_vars
    /\ WF_vars(coordinatorHealthy)
    /\ \A w \in Workers : WF_vars(workerHealthy(w))

\* ------------------------------------------------- claims on DownloadFile
\* DownloadFile has returned
returned == cpc = "done"

\* C7: in a healthy multi-mode run (every ranged GET returns 206 with exactly
\* the requested bytes, no filesystem call fails, the callback returns true),
\* for every connections >= 2 and every blockSize >= 1, the download
\* eventually is full, all workers have ended and are joined, and DownloadFile
\* returns with the error kind Success.
C7_HealthyLiveness ==
    <>(/\ returned
       /\ ret = "true"
       /\ error = kSucceed
       /\ \A w \in Workers : wpc[w] = "ended"
       /\ promoted.exists)

\* finished as it was at the promotion is the one interval [0, bytesTotal-1]
promotedFull ==
    /\ Cardinality(promoted.finishedRanges) = 1
    /\ \A f \in promoted.finishedRanges :
           f.start = 0 /\ f.end = promoted.bytesTotal - 1

\* C8: whenever DownloadFile ends with the error kind Success, P exists and
\* neither P.temp nor P.meta exists; when bytesTotal is known (> 0) the
\* promoted file has exactly bytesTotal bytes and finished was
\* {[0, bytesTotal-1]} at the moment of the promotion.
C8_Finalization ==
    (returned /\ error = kSucceed) =>
        /\ finalFile.exists
        /\ ~tempFile.exists
        /\ ~metaFile.exists
        /\ promoted.exists
        /\ promoted.bytesTotal > 0 =>
               (promoted.size = promoted.bytesTotal /\ promotedFull)

\* the direct mode's one GET of the small resource: the probe gave a positive
\* length and no Accept-Ranges, the loop ended without an error on a 200 that
\* delivered exactly that length (ret = "true": `!error` as the loop left it),
\* and no filesystem call failed
smallSingleShot ==
    /\ returned
    /\ connections > 1
    /\ attribute.contentLength = 1024
    /\ ~attribute.acceptRanges
    /\ response = [status |-> 200, code |-> "OK"]
    /\ filePos = attribute.contentLength
    /\ ret = "true"
    /\ error # kFilesystemError

\* C9: with connections > 1, a probe that reports a known positive
\* Content-Length (1024) and no Accept-Ranges, and a streaming GET that
\* delivers the whole body with status 200, DownloadFile ends in success: P
\* exists with exactly the body's bytes and neither P.temp nor P.meta remains.
C9_SmallResource ==
    smallSingleShot =>
        /\ error = kSucceed
        /\ finalFile.exists
        /\ finalFile.size = attribute.contentLength
        /\ ~tempFile.exists
        /\ ~metaFile.exists

\* C10: on every path DownloadFile returns true if and only if the error code
\* it leaves in `error` is Success, the paths where the close at scope exit
\* fails included.
C10_ResultAgreesWithError ==
    returned => (ret = "true" <=> error = kSucceed)

\* C11: P.temp is moved to P only inside close(finished = true), which runs
\* only when the download's error is none and which moves only when
\* bytesTotal <= 0 or is_full() holds; and when a download that opened its
\* RangeFile ends failed or cancelled, P does not exist and P.temp still
\* exists.
C11_PromotionOnlyOnSuccess ==
    [][/\ (finalFile' # finalFile /\ finalFile'.exists) =>
              /\ cpc = "close" /\ opened
              /\ error = kSucceed
              /\ (bytesTotal <= 0 \/ is_full)
       /\ (cpc = "close" /\ opened /\ error' # kSucceed) =>
              (~finalFile'.exists /\ tempFile'.exists)]_vars

\* -------------------------------------- the multi mode under any responses
\* The probe selects the multi mode and no filesystem call of the coordinator
\* fails; the ranged GETs, the workers' writes and the callback are free.
coordinatorMulti ==
    \/ enter
    \/ probeHealthy
    \/ cleanupHealthy
    \/ openHealthy
    \/ spawn
    \/ coordLoop
    \/ coordTickAny
    \/ coordSleep
    \/ coordDump
    \/ coordJoin
    \/ closeHealthy
    \/ finalReturn

InitMulti ==
    /\ InitHealthy
    /\ ~tempFile.exists
    /\ ~metaFile.exists

NextMulti ==
    \/ coordinatorMulti
    \/ clockTick
    \/ \E w \in Workers : worker(w)

\* every thread that can take a step eventually takes one: a request in
\* flight returns, a thread waiting for _mutex gets it once it is free
SpecMulti ==
    /\ InitMulti
    /\ [][NextMulti]_vars
    /\ WF_vars(coordinatorMulti)
    /\ \A w \in Workers : WF_vars(worker(w))

\* C12: once the callback has returned false at a coordinator tick the flag is
\* Cancelled and the coordinator is past its loop for good (no further tick,
\* so no further callback), and eventually every worker has ended and is
\* joined, close(finished = false) has run (nothing was promoted) and
\* DownloadFile has returned false with OperationInterrupted.
C12_Cancellation ==
    /\ [](flag = kCancelled =>
            /\ cpc \in {"join", "close", "return", "done"}
            /\ error = kOperationInterrupted)
    /\ (flag = kCancelled) ~>
            (/\ returned
             /\ ret = "false"
             /\ error = kOperationInterrupted
             /\ \A w \in Workers : wpc[w] = "ended"
             /\ ~promoted.exists)

\* the multi mode was cancelled through the callback and DownloadFile is back
cancelledAndReturned ==
    /\ returned
    /\ flag = kCancelled
    /\ \A w \in Workers : wpc[w] = "ended"

\* C13: after a multi-mode download was cancelled through the progress
\* callback at any coordinator tick, the ticks before the first periodic dump
\* included, and DownloadFile has returned, both P.temp and P.meta exist.
C13_CancelKeepsArtifacts ==
    cancelledAndReturned => (tempFile.exists /\ metaFile.exists)

\* C14: a coordinator tick taken with the flag Running (the loop condition
\* found the file not full), the time since T0 above `timeout` and every
\* worker's error a non-Success kind sets the flag to Failed, records a kind
\* whose count among the workers' errors is maximal and leaves the loop;
\* what the callback would return has no part in it.
C14_TimeoutArbitration ==
    [][(/\ cpc = "tick" /\ cpc' # "tick"
        /\ flag = kRunning
        /\ clock = 2
        /\ \A w \in Workers : states[w].error # kSucceed) =>
           /\ flag' = kFailed
           /\ cpc' = "join"
           /\ errorCount(error') > 0
           /\ \A k \in ErrorKinds : errorCount(error') >= errorCount(k)]_vars

\* the arbitration has declared the failure over two different kinds
C14_Witness ==
    /\ cpc = "join"
    /\ flag = kFailed
    /\ error = kNetworkError
    /\ \E w \in Workers : states[w].error = kFileNotFound

\* ------------------------------------- the mode selection and the direct mode
\* Every blockSize an int preference can carry is tried, the negative ones and
\* the default 1 MiB included; the multi mode is followed up to the start of
\* its threads.
SelectBlockSizes == {-1, 1, MiB, HalfBlock, WholeBlock}

InitSelect == InitDLWith(SelectBlockSizes)

NextSelect ==
    \/ enter
    \/ clockTick
    \/ probeAny
    \/ cleanupAny
    \/ openDirect
    \/ openMulti
    \/ directGetAny
    \/ directReturn
    \/ closeAny
    \/ spawn

SpecSelect == InitSelect /\ [][NextSelect]_vars

\* the RangeFile is open and the mode is taken
directChosen == cpc = "dget"
multiChosen == cpc = "spawn" \/ (cpc = "loop" /\ \A w \in Workers : wpc[w] = "start")

\* the threads that were started
started == {w \in Workers : wpc[w] # "none"}

\* C15 as the spec states it: the direct mode is chosen if and only if the
\* probe was skipped (connections <= 1), contentLength = -1,
\* contentLength <= blockSize, acceptRanges is empty or
\* contentLength < 10 MiB; otherwise the multi mode, with exactly
\* `connections` workers.
C15_ModeSelectionAsStated ==
    LET direct == \/ connections <= 1
                  \/ attribute.contentLength = -1
                  \/ attribute.contentLength <= blockSize
                  \/ ~attribute.acceptRanges
                  \/ attribute.contentLength < 10 * 1024 * 1024
    IN /\ directChosen => direct
       /\ multiChosen => ~direct
       /\ cpc = "loop" => Cardinality(started) = connections

\* C15, amended: the last disjunct is 0 < contentLength < 10 MiB. The direct
\* mode is chosen if and only if the probe was skipped (connections <= 1),
\* contentLength = -1, contentLength <= blockSize, acceptRanges is empty or
\* 0 < contentLength < 10 MiB; otherwise the multi mode, with exactly
\* `connections` workers.
C15_ModeSelection ==
    LET direct == \/ connections <= 1
                  \/ attribute.contentLength = -1
                  \/ attribute.contentLength <= blockSize
                  \/ ~attribute.acceptRanges
                  \/ (0 < attribute.contentLength
                        /\ attribute.contentLength < 10 * 1024 * 1024)
    IN /\ directChosen => direct
       /\ multiChosen => ~direct
       /\ cpc = "loop" => Cardinality(started) = connections

\* the multi mode was taken for an empty resource and its threads started
C15_Witness ==
    /\ cpc = "loop"
    /\ attribute.contentLength = 0
    /\ Cardinality(started) = connections

\* the scenario's request: several connections, the default blockSize of
\* 1 MiB, a probe reporting 4194304 bytes with Accept-Ranges: bytes
largeRequest ==
    /\ connections = NumWorkers
    /\ blockSize = MiB
    /\ attribute = [contentLength |-> 4 * MiB, acceptRanges |-> TRUE]

\* C16: for a probe reporting Content-Length 4194304 with Accept-Ranges: bytes
\* and the default preferences (several connections, blockSize 1 MiB), the
\* open RangeFile is driven in multi mode by one worker per connection, never
\* in direct mode; and when DownloadFile has returned after the server
\* delivered the resource with no filesystem failure, the file was full at the
\* promotion, P exists and neither P.temp nor P.meta does.
C16_LargeResource ==
    /\ (largeRequest /\ opened) =>
           (~directChosen /\ (cpc = "loop" => started = Workers))
    /\ (largeRequest /\ returned /\ filePos = 4 * MiB
          /\ response = [status |-> 200, code |-> "OK"]
          /\ error # kFilesystemError) =>
           /\ promoted.exists /\ promotedFull
           /\ finalFile.exists
           /\ ~tempFile.exists
           /\ ~metaFile.exists

\* ---------------------------------------- the multi mode against a 404 server
\* The probe selects the multi mode, every ranged GET is answered with status
\* 404, the callback returns true and no filesystem call fails.
notFoundResponse == [status |-> 404, code |-> "OK"]

workerGetNotFound(w) == workerGet(w, notFoundResponse, 0, FALSE)

workerNotFound(w) ==
    \/ workerStart(w)
    \/ workerLoop(w)
    \/ allocate(w)
    \/ allocateTile(w)
    \/ allocateAfterTile(w)
    \/ workerGetNotFound(w)
    \/ workerHandle(w)
    \/ workerDeallocateReturn(w)
    \/ workerExit(w)

NextNotFound ==
    \/ coordinatorHealthy
    \/ clockTick
    \/ \E w \in Workers : workerNotFound(w)

\* every thread that can take a step eventually takes one, and time passes
SpecNotFound ==
    /\ InitMulti
    /\ [][NextNotFound]_vars
    /\ WF_vars(coordinatorHealthy)
    /\ WF_vars(clockTick)
    /\ \A w \in Workers : WF_vars(workerNotFound(w))

\* the sizes of the members of S, summed
sizeSum(S) ==
    LET RECURSIVE sum(_)
        sum(T) == IF T = {} THEN 0
                  ELSE LET r == CHOOSE x \in T : TRUE IN size(r) + sum(T \ {r})
    IN sum(S)

\* C17: when every ranged GET is answered with 404, a worker that has recorded
\* FileNotFound is on its way out and never allocates again (one request per
\* worker); once all workers have ended every interval is back in available;
\* and eventually DownloadFile has returned false with FileNotFound, every
\* worker having recorded FileNotFound, with P.temp kept and P absent.
C17_NotFound ==
    /\ [](\A w \in Workers :
            states[w].error = kFileNotFound =>
                wpc[w] \in {"dealloc_ret", "done", "ended"})
    /\ []((cpc \in {"loop", "tick", "dumpq", "join"}
            /\ \A w \in Workers : wpc[w] = "ended") =>
               /\ allocateRanges = {}
               /\ finishedRanges = {}
               /\ sizeSum(availableRanges) = bytesTotal)
    /\ <>(/\ returned
          /\ ret = "false"
          /\ error = kFileNotFound
          /\ \A w \in Workers :
                wpc[w] = "ended" /\ states[w].error = kFileNotFound
          /\ tempFile.exists
          /\ ~finalFile.exists)

\* C18: a worker whose fill met a filesystem error has recorded the filesystem
\* kind and is on its way out (fatal: no further allocate); and when
\* DownloadFile has returned from a run in which that happened to some worker
\* (and the callback never cancelled), the coordinator had declared the
\* failure (flag Failed) with the filesystem kind and P.temp remains.
C18_DiskFull ==
    /\ \A w \in Workers :
           states[w].error = kFilesystemError =>
               wpc[w] \in {"dealloc_ret", "done", "ended"}
    /\ (/\ returned
        /\ flag # kCancelled
        /\ \E w \in Workers : states[w].error = kFilesystemError) =>
           /\ flag = kFailed
           /\ error = kFilesystemError
           /\ tempFile.exists

\* ------------------------------------------- HandleRequestError on its own
\* The call of line 485 in worker 1, over the classifier's inputs: the
\* response's status and transport code, the filesystem error of the fill,
\* the flag, and the value state.error held before the call.
ClassifyStatuses == {0, 200, 206, 301, 404, 500, 503}

\* TOO_MANY_REDIRECTS stands for the transport codes the switch does not name
TransportCodes ==
    {"OK", "ABORTED_BY_CALLBACK", "AGAIN", "SEND_ERROR", "RECV_ERROR",
     "COULDNT_RESOLVE_HOST", "COULDNT_CONNECT", "PROXY", "OPERATION_TIMEDOUT",
     "SSL_CONNECT_ERROR", "UNKNOWN_ERROR", "GOT_NOTHING", "TOO_MANY_REDIRECTS"}

ClassifyResponses ==
    {[status |-> st, code |-> c] : st \in ClassifyStatuses, c \in TransportCodes}

\* worker 1 holds the first tile, its GET has returned and its fill wrote
\* nothing; the other workers have not started
InitClassify ==
    /\ connections = NumWorkers
    /\ blockSize = HalfBlock
    /\ blockHint = HalfBlock
    /\ bytesTotal = SmallLimit
    /\ bytesProcessed = 0
    /\ allocateRanges = {[start |-> 0, end |-> HalfBlock - 1,
                          position |-> 0, state |-> kPending]}
    /\ finishedRanges = {}
    /\ availableRanges = {Range2(HalfBlock, SmallLimit - 1)}
    /\ mutex = 0
    /\ last = InvalidRange
    /\ wpc = [w \in Workers |-> IF w = 1 THEN "filled" ELSE "start"]
    /\ wrange = [w \in Workers |->
                    IF w = 1 THEN [start |-> 0, end |-> HalfBlock - 1,
                                   position |-> 0, state |-> kPending]
                    ELSE InvalidRange]
    /\ wsize = [w \in Workers |-> 0]
    /\ wtmp = [w \in Workers |-> 0]
    /\ \E fserr \in {kSucceed, kFilesystemError} :
           wecode = [w \in Workers |-> IF w = 1 THEN fserr ELSE kSucceed]
    /\ calls = OverCalls
    /\ opened = TRUE
    /\ filePos = 0
    /\ tempFile = [exists |-> TRUE, size |-> SmallLimit, data |-> {}]
    /\ metaFile = NoMeta
    /\ finalFile = NoFile
    /\ metaTempFile = NoMeta
    /\ darchive = NoMeta
    /\ cpc = "loop"
    /\ attribute = [contentLength |-> SmallLimit, acceptRanges |-> TRUE]
    /\ error = kSucceed
    /\ ret = "none"
    /\ flag \in {kRunning, kFailed, kCancelled}
    /\ clock = 0
    /\ response = NoResponse
    /\ \E before \in ErrorKinds :
           states = [w \in Workers |->
                        IF w = 1 THEN [flag |-> "Running", error |-> before]
                        ELSE [flag |-> "None", error |-> kSucceed]]
    /\ \E resp \in ClassifyResponses :
           /\ wresponse = [w \in Workers |-> IF w = 1 THEN resp ELSE NoResponse]
           /\ resp.code \in {"ABORTED_BY_CALLBACK", "AGAIN"} => flag # kRunning
           /\ resp.code = "OK" => resp.status # 0
    /\ lastIndex = 1
    /\ lastDump = 0
    /\ promoted = NoMeta

NextClassify == workerHandle(1)

SpecClassify == InitClassify /\ [][NextClassify]_vars

\* the (kind, fatal) the table gives for the transport code and status
tableRow(resp, fserr, flagv) ==
    IF fserr # kSucceed THEN [error |-> fserr, fatal |-> TRUE]
    ELSE IF resp.code = "ABORTED_BY_CALLBACK" /\ flagv = kCancelled
    THEN [error |-> kOperationInterrupted, fatal |-> TRUE]
    ELSE IF resp.code \in {"SEND_ERROR", "RECV_ERROR", "COULDNT_RESOLVE_HOST",
                           "COULDNT_CONNECT", "OPERATION_TIMEDOUT",
                           "SSL_CONNECT_ERROR", "PROXY",
                           "UNKNOWN_ERROR", "GOT_NOTHING"}
    THEN [error |-> kNetworkError, fatal |-> FALSE]
    ELSE IF resp.status = 200 \/ resp.status = 206
    THEN [error |-> kSucceed, fatal |-> FALSE]
    ELSE IF resp.status = 404
    THEN [error |-> kFileNotFound, fatal |-> TRUE]
    ELSE IF resp.status = 503
    THEN [error |-> kServerError, fatal |-> TRUE]
    ELSE IF resp.status >= 400
    THEN [error |-> kOperationFailed, fatal |-> FALSE]
    ELSE [error |-> kRuntimeError, fatal |-> FALSE]

\* the inputs the table has a row for
inTable(resp, fserr, flagv) ==
    \/ fserr # kSucceed
    \/ resp.code = "ABORTED_BY_CALLBACK" /\ flagv = kCancelled
    \/ resp.code \notin {"ABORTED_BY_CALLBACK", "AGAIN", "TOO_MANY_REDIRECTS"}

\* C19: the call of HandleRequestError leaves (kind, fatal) as the table says:
\* a filesystem error -> that kind, fatal; aborted while cancelled ->
\* OperationInterrupted, fatal; a transport error -> NetworkError, not fatal;
\* OK with 200 or 206 -> Success, not fatal; 404 -> FileNotFound, fatal;
\* 503 -> ServerError, fatal; another status >= 400 -> OperationFailed, not
\* fatal; OK with any other status -> RuntimeError, not fatal.
C19_ClassificationTable ==
    [][(/\ wpc[1] = "filled" /\ wpc'[1] # "filled"
        /\ inTable(wresponse[1], wecode[1], flag)) =>
           /\ states'[1].error = tableRow(wresponse[1], wecode[1], flag).error
           /\ (wpc'[1] = "dealloc_ret") =
                  tableRow(wresponse[1], wecode[1], flag).fatal]_vars

\* C20: the kind a call of HandleRequestError leaves in a worker's
\* state.error is the kind it leaves when state.error was Success before the
\* call: it depends on (status, transport code, filesystem error, flag) only,
\* so after a 200/206 response it is Success whatever an earlier request of
\* the same worker left.
C20_ClassifierPure ==
    [][\A w \in Workers :
          (wpc[w] = "filled" /\ wpc'[w] # "filled") =>
              states'[w].error =
                  HandleRequestError(wresponse[w], wecode[w], flag, kSucceed).error]_vars

\* ------------------------------------- the healthy run, dump step by step
\* The healthy multi-mode run with rf.dump() taken one file operation at a
\* time. A process can stop in any state: what is on disk in that state is
\* what the next process finds.
coordDumpCopy ==
    /\ clock > lastDump
    /\ dumpCopy("dumpq", "dump_write")

coordDumpMove == dumpMove("dump_move", "dump_done")

\* line 561: lastDump = now, then the sleep
coordDumped ==
    /\ cpc = "dump_done"
    /\ lastDump' = clock
    /\ cpc' = "loop"
    /\ UNCHANGED <<metaVars, rfLocal, fsVars>>
    /\ UNCHANGED <<darchive, connections, blockSize, attribute, error, ret, flag,
                   clock, response, states, wresponse, lastIndex, promoted>>

coordinatorDumping ==
    \/ enter
    \/ probeHealthy
    \/ cleanupHealthy
    \/ openHealthy
    \/ spawn
    \/ coordLoop
    \/ coordTickHealthy
    \/ coordSleep
    \/ coordDumpCopy
    \/ dumpWriteStep
    \/ dumpRemoveStep
    \/ coordDumpMove
    \/ coordDumped
    \/ coordJoin
    \/ closeHealthy
    \/ finalReturn

NextDumping ==
    \/ coordinatorDumping
    \/ clockTick
    \/ \E w \in Workers : workerHealthy(w)

SpecDumping == InitMulti /\ [][NextDumping]_vars

\* C21: once P.meta exists (a first dump has completed), every step of every
\* later dump leaves P.meta in existence, holding the snapshot it held before
\* or the snapshot the running dump has taken.
C21_DumpCrashAtomic ==
    [][(metaFile.exists /\ cpc \in {"dump_write", "dump_remove", "dump_move"}) =>
          (metaFile'.exists /\ (metaFile' = metaFile \/ metaFile' = darchive))]_vars

\* C22: a step of the probe loop (taken only with connections > 1) goes on to
\* the removal of P when the probe succeeds, goes back to the probe exactly
\* when it failed with NetworkError and the elapsed time is below the timeout,
\* and otherwise ends DownloadFile with the probe's error, false returned,
\* P and P.temp as they were and no file opened.
C22_ProbeRetry ==
    [][(cpc = "probe" /\ clock' = clock) =>
          /\ connections > 1
          /\ error' = kSucceed => cpc' = "cleanup"
          /\ error' # kSucceed =>
                /\ cpc' = "probe" <=> (error' = kNetworkError /\ clock = 0)
                /\ cpc' # "probe" =>
                      /\ cpc' = "done"
                      /\ ret' = "false"
                      /\ finalFile' = finalFile
                      /\ tempFile' = tempFile
                      /\ metaFile' = metaFile
                      /\ ~opened']_vars

C22_Witness ==
    /\ cpc = "done"
    /\ connections > 1
    /\ error = kNetworkError
    /\ clock = 1
    /\ ret = "false"
    /\ finalFile.exists
    /\ ~opened

\* ------------------------------------------------- Range::operator+ on its own
\* UtilTestForClassRange: two valid intervals a = wrange[1], b = wrange[2]
\* inside [0, MaxBytes], then `a + b` into `last`
InitRange ==
    /\ blockHint = MaxBytes
    /\ bytesTotal = MaxBytes
    /\ bytesProcessed = 0
    /\ allocateRanges = {}
    /\ finishedRanges = {}
    /\ availableRanges = {}
    /\ mutex = 0
    /\ last = InvalidRange
    /\ wpc = [w \in Workers |-> "none"]
    /\ wrange \in [Workers -> {Range2(s, e) : s \in 0..MaxBytes, e \in 0..MaxBytes}]
    /\ \A w \in Workers : valid(wrange[w])
    /\ wsize = [w \in Workers |-> 0]
    /\ wtmp = [w \in Workers |-> 0]
    /\ wecode = [w \in Workers |-> kSucceed]
    /\ calls = OverCalls
    /\ opened = FALSE
    /\ filePos = 0
    /\ tempFile = NoFile
    /\ metaFile = NoMeta
    /\ metaTempFile = NoMeta
    /\ finalFile = NoFile
    /\ IdleCoordinator

NextRange ==
    /\ cpc = "run"
    /\ last' = [start |-> plus(wrange[1], wrange[2]).start,
                end |-> plus(wrange[1], wrange[2]).end,
                position |-> 0, state |-> kUnfilled]
    /\ cpc' = "plus"
    /\ UNCHANGED <<metaVars, mutex, workerVars, calls, fsVars>>
    /\ UNCHANGED <<darchive, connections, blockSize, attribute, error, ret, flag,
                   clock, response, states, wresponse, lastIndex, lastDump, promoted>>

SpecRange == InitRange /\ [][NextRange]_vars

\* a and b leave no offset between them: one ends right before the other starts
adjacent(a, b) == a.end + 1 = b.start \/ b.end + 1 = a.start

\* C23: for valid intervals a and b, mergeable is symmetric and reflexive,
\* a + a = a, a + b = b + a = [min(start), max(end)] when they are mergeable,
\* adjacent intervals are mergeable and their union has the sum of their
\* sizes, and a + b is the invalid interval of size 0 when they are not
\* mergeable.
C23_RangeUnion ==
    cpc = "plus" =>
        LET a == wrange[1]
            b == wrange[2]
        IN /\ mergeable(a, b) <=> mergeable(b, a)
           /\ mergeable(a, a)
           /\ plus(a, a) = [start |-> a.start, end |-> a.end]
           /\ mergeable(a, b) =>
                 /\ last.start = Min2(a.start, b.start)
                 /\ last.end = Max2(a.end, b.end)
                 /\ plus(b, a) = [start |-> last.start, end |-> last.end]
           /\ adjacent(a, b) =>
                 /\ mergeable(a, b)
                 /\ size(last) = size(a) + size(b)
           /\ ~mergeable(a, b) =>
                 /\ last.start = -1 /\ last.end = -1
                 /\ ~valid(last)
                 /\ size(last) = 0
                 /\ plus(b, a) = [start |-> -1, end |-> -1]

C23_Witness ==
    /\ cpc = "plus"
    /\ wrange[1].end + 1 = wrange[2].start
    /\ size(wrange[1]) >= 2
    /\ size(wrange[2]) >= 2
    /\ last.start = wrange[1].start
    /\ last.end = wrange[2].end

\* the k-th chunk of the tiling of [0, bytesTotal-1] by blockHint
chunk(k) == Range2(k * blockHint, Min2((k + 1) * blockHint, bytesTotal) - 1)

\* C24: in the first allocate on an empty RangeFile the tiling loop, having
\* inserted k chunks, starts its next chunk at k * blockHint (so it ends after
\* the last chunk), and when the loop is over, before the pop, available is
\* the set of the chunks [k*blockHint, min((k+1)*blockHint, bytesTotal) - 1].
C24_InitialTiling ==
    \A w \in Workers :
        /\ wpc[w] = "tile" =>
               tileStart(last) = Cardinality(availableRanges) * blockHint
        /\ wpc[w] = "pop" =>
               availableRanges = {chunk(k) : k \in 0..((bytesTotal - 1) \div blockHint)}

\* ------------------------- the multi mode against a server that may answer 404
\* Every ranged GET returns: 206 with exactly the requested bytes, or 404. No
\* filesystem call fails, the callback returns true, time passes.
workerGetFatal(w) ==
    \E resp \in {healthyResponse, notFoundResponse} :
        workerGet(w, resp, size(wrange[w]), FALSE)

workerFatal(w) ==
    \/ workerStart(w)
    \/ workerLoop(w)
    \/ allocate(w)
    \/ allocateTile(w)
    \/ allocateAfterTile(w)
    \/ workerGetFatal(w)
    \/ fillStore(w)
    \/ fillMirror(w)
    \/ workerHandle(w)
    \/ workerDeallocate(w)
    \/ workerDeallocateReturn(w)
    \/ workerExit(w)

NextFatal ==
    \/ coordinatorHealthy
    \/ clockTick
    \/ \E w \in Workers : workerFatal(w)

\* config.blockSize = 5 MiB
InitFatal == InitMulti /\ blockSize = HalfBlock

\* every thread that can take a step eventually takes one, and time passes
SpecFatal ==
    /\ InitFatal
    /\ [][NextFatal]_vars
    /\ WF_vars(coordinatorHealthy)
    /\ WF_vars(clockTick)
    /\ \A w \in Workers : WF_vars(workerFatal(w))

\* the coordinator loop of lines 508-565 has been left
loopExited == cpc \in {"join", "close", "return", "done"}

\* C25: when every request returns and the callback returns true, the
\* coordinator loop of a multi-mode call, once entered, is eventually left,
\* whatever the requests returned.
C25_MultiTermination == (cpc = "loop") ~> loopExited

\* worker w's most recent ranged request succeeded: its body filled the whole
\* interval, HandleRequestError has run on it and the interval is not yet
\* given back
recentSuccess(w) == wpc[w] = "dealloc" /\ wrange[w].state = kFilled

\* C26: the coordinator sets the flag to Failed only when the elapsed time
\* exceeds the timeout, every worker's recorded error is set, and no worker's
\* most recent request succeeded.
C26_FailureOnlyWhenAllErroring ==
    [][(flag = kRunning /\ flag' = kFailed) =>
          /\ clock = 2
          /\ \A w \in Workers : states[w].error # kSucceed
          /\ \A w \in Workers : ~recentSuccess(w)]_vars

\* the bytes the fills of the workers holding an interval have written to it
RECURSIVE heldBytes(_)
heldBytes(W) ==
    IF W = {} THEN 0
    ELSE LET w == CHOOSE x \in W : TRUE
         IN (wrange[w].position - wrange[w].start) + heldBytes(W \ {w})

\* the bytes written by fill since open, for a RangeFile that restored nothing
bytesWritten == sizeSum(finishedRanges) + heldBytes({w \in Workers : holding(w)})

\* C27: whenever no fill is between its file write and its `+=`, processed()
\* is the number of bytes the fills have written since open; and no step
\* lowers processed().
C27_ProcessedExact ==
    [][/\ (\A w \in Workers : wpc'[w] # "fstore") => bytesProcessed' = bytesWritten'
       /\ bytesProcessed' >= bytesProcessed]_vars

\* C28: after open has restored a snapshot that dump took at any moment of
\* the workers' run, processed is the sum of the sizes of the restored
\* finished intervals.
C28_SnapshotConsistency ==
    restoredSnapshot => bytesProcessed = sizeSum(finishedRanges)

\* C29: at every moment every member of finished has state Filled and
\* position equal to its end + 1.
C29_FilledPosition ==
    \A f \in finishedRanges : f.state = kFilled /\ f.position = f.end + 1

\* --------------------- the multi mode against a server that may ignore Range
\* A ranged GET returns 206 with exactly the requested bytes, 404, or, from a
\* server that ignores the Range header, 200 with the whole resource.
workerGetUnranged(w) ==
    workerGet(w, [status |-> 200, code |-> "OK"], bytesTotal, FALSE)

NextUnranged ==
    \/ coordinatorHealthy
    \/ clockTick
    \/ \E w \in Workers : workerFatal(w)
    \/ \E w \in Workers : workerGetUnranged(w)

SpecUnranged == InitFatal /\ [][NextUnranged]_vars

\* C30: a worker's fill(range, body, n) has n <= range.end + 1 -
\* range.position, and every member of finished and of available is a valid
\* interval inside [0, bytesTotal - 1] that shares no byte with another
\* member of the three sets.
C30_NoOvershoot ==
    /\ \A w \in Workers :
           wpc[w] = "fstore" =>
               wsize[w] <= wrange[w].end + 1 - wrange[w].position
    /\ \A r \in finishedRanges \cup availableRanges :
           /\ valid(r)
           /\ r.end <= bytesTotal - 1
           /\ \A x \in allRanges : x # r => ~intersected(x, r)

\* C31: after close(finished) has returned, with or without an error, the
\* three sets are empty, bytesTotal is -1, processed is 0, blockHint is the
\* default and the file is not opened.
C31_CloseResets ==
    [][(cpc = "close" /\ cpc' # "close" /\ opened) =>
          /\ allocateRanges' = {}
          /\ finishedRanges' = {}
          /\ availableRanges' = {}
          /\ bytesTotal' = -1
          /\ bytesProcessed' = 0
          /\ blockHint' = DefaultHint
          /\ ~opened']_vars

\* C32: in direct mode, when the streaming GET before ended with a transport
\* error recorded as NetworkError at an elapsed time below the timeout, and
\* the retried GET completes with status 200 and no filesystem error, the
\* retry loop stops after that GET and the error is not NetworkError.
C32_DirectRetrySucceeds ==
    [][(/\ cpc = "dget"
        /\ clock' = clock
        /\ clock = 0
        /\ error = kNetworkError
        /\ response.code = "RECV_ERROR"
        /\ response' = [status |-> 200, code |-> "OK"]
        /\ error' # kFilesystemError) =>
          (cpc' = "dreturn" /\ error' # kNetworkError)]_vars

\* C33: when the direct mode's streaming GET is retried after an attempt that
\* wrote bytes, the bytes of the new GET are written from file offset 0: the
\* file position after the GET is the number of bytes this GET delivered.
C33_DirectRetryOverwrites ==
    [][(/\ cpc = "dget"
        /\ clock' = clock
        /\ error = kNetworkError
        /\ filePos > 0
        /\ bytesProcessed' > bytesProcessed) =>
          filePos' = bytesProcessed' - bytesProcessed]_vars

\* allocate returns an interval to worker w in this step
obtains(w) == wpc[w] \in {"alloc", "pop"} /\ wpc'[w] = "fill"

\* C34 as stated: once the flag has left Running, no allocate returns an
\* interval to a worker.
C34_NoAllocationAfterFlagAsStated ==
    [][\A w \in Workers : flag # kRunning => ~obtains(w)]_vars

\* C34: the flag never returns to Running, and a worker goes on to allocate
\* only from a loop test that read the flag as Running; so after the flag has
\* left Running a worker obtains an interval only from the allocate whose loop
\* test came before the change, at most once.
C34_NoAllocationAfterFlag ==
    [][/\ flag # kRunning => flag' = flag
       /\ \A w \in Workers :
             (wpc'[w] = "alloc" /\ wpc[w] # "alloc") =>
                 (wpc[w] = "loop" /\ flag = kRunning)
       /\ \A w \in Workers :
             (wpc[w] = "loop" /\ flag # kRunning) => wpc'[w] \in {"loop", "done"}]_vars

\* a worker has left its loop on the flag, with an interval left to allocate
C34_Witness ==
    /\ flag = kCancelled
    /\ availableRanges # {}
    /\ \E w \in Workers :
          /\ wpc[w] = "done"
          /\ ~valid(wrange[w])
          /\ states[w].error = kSucceed
    /\ \E w \in Workers : wpc[w] = "fill"

\* C35: once the flag is no longer Running, eventually every worker has
\* terminated, no interval is left in allocated and the coordinator is past its
\* join of the workers.
C35_WorkersStop ==
    (flag # kRunning) ~>
        (/\ \A w \in Workers : wpc[w] = "ended"
         /\ allocateRanges = {}
         /\ cpc \in {"close", "return", "done"})

\* the request worker w has just made is classified fatal
fatalRequest(w) ==
    /\ wpc[w] = "filled"
    /\ HandleRequestError(wresponse[w], wecode[w], flag, states[w].error).fatal

joinedBeforeClose == cpc = "close" /\ \A w \in Workers : wpc[w] = "ended"

\* C37: allocated holds exactly one entry for each interval a worker has
\* obtained and not yet deallocated, found by that interval's start; every way
\* out of a loop iteration passes one deallocate, which finds the entry and
\* removes it; so allocated is empty when the workers are joined and close is
\* still to be called.
C37_AllocateDeallocatePairing ==
    /\ []({x.start : x \in allocateRanges} =
              {wrange[w].start : w \in {v \in Workers : holding(v)}})
    /\ [](Cardinality(allocateRanges) =
              Cardinality({w \in Workers : holding(w)}))
    /\ [](joinedBeforeClose => allocateRanges = {})
    /\ [][\A w \in Workers :
            /\ (holding(w) /\ ~holding(w)') =>
                  /\ wpc[w] \in {"dealloc", "dealloc_ret"}
                  /\ setFind(allocateRanges, wrange[w]) # {}
                  /\ allocateRanges' = allocateRanges \ setFind(allocateRanges, wrange[w])
            /\ (~holding(w) /\ holding(w)') =>
                  /\ wpc[w] \in {"alloc", "pop"}
                  /\ setFind(allocateRanges, wrange'[w]) = {}
                  /\ wrange'[w] \in allocateRanges']_vars

\* both workers have obtained, filled and given back an interval, by a
\* success and by a fatal return, and the workers are joined
C37_Witness ==
    /\ joinedBeforeClose
    /\ allocateRanges = {}
    /\ finishedRanges # {}
    /\ availableRanges # {}
    /\ \E w \in Workers : states[w].error = kFileNotFound

\* every offset of interval r holds bytes written to P.temp
stored(r) == \E e \in tempFile.data : e[1] <= r.start /\ r.end <= e[2]

\* the snapshots dump has written to disk
snapshotsOnDisk == {s \in {metaTempFile, metaFile} : s.exists}

\* C38: while P.temp is there, every offset covered by a member of finished,
\* and by a member of finished in a snapshot dump has written, holds bytes
\* that a fill wrote to P.temp; fill's file write is a step that leaves the
\* interval's position and state alone, and they advance in a later step by
\* the count written.
C38_FinishedMeansWritten ==
    /\ [](tempFile.exists => \A r \in finishedRanges : stored(r))
    /\ [](tempFile.exists =>
             \A s \in snapshotsOnDisk : \A r \in s.finishedRanges : stored(r))
    /\ [][\A w \in Workers :
            /\ (wpc[w] = "fill" /\ wpc'[w] = "fstore") =>
                  /\ wrange'[w] = wrange[w]
                  /\ wsize'[w] > 0
                  /\ \E e \in tempFile'.data :
                        /\ e[1] <= wrange[w].position
                        /\ wrange[w].position + wsize'[w] - 1 <= e[2]
            /\ (holding(w) /\ holding(w)' /\ wrange'[w] # wrange[w]) =>
                  /\ wpc[w] = "fstore"
                  /\ wrange'[w] = advanced(wrange[w], wsize[w])]_vars

\* a dump has written a snapshot whose finished set is not empty, and finished
\* holds the prefix of an interval given back Partial
C38_Witness ==
    /\ tempFile.exists
    /\ metaFile.exists
    /\ metaFile.finishedRanges # {}
    /\ \E r \in finishedRanges : r.position = r.end
    /\ cpc = "dumped"

\* ------------------------------------------- reserve on a RangeFile in use
\* RangeFile rf(size, hint), opened on a new P.temp or not opened; threads run
\* the loop of allocate, fill (on the opened file) and deallocate, and between
\* their calls the owner calls reserve with any size and hint. cpc holds what the last reserve
\* returned.
InitReserve ==
    /\ blockHint \in 1..MaxBytes
    /\ bytesTotal \in 1..MaxBytes
    /\ bytesProcessed = 0
    /\ allocateRanges = {}
    /\ finishedRanges = {}
    /\ availableRanges = {}
    /\ mutex = 0
    /\ last = InvalidRange
    /\ wpc = [w \in Workers |-> "alloc"]
    /\ wrange = [w \in Workers |-> InvalidRange]
    /\ wsize = [w \in Workers |-> 0]
    /\ wtmp = [w \in Workers |-> 0]
    /\ wecode = [w \in Workers |-> kSucceed]
    /\ calls = FreshCalls
    /\ opened \in BOOLEAN
    /\ filePos = 0
    /\ tempFile = IF opened THEN [exists |-> TRUE, size |-> bytesTotal, data |-> {}]
                  ELSE NoFile
    /\ metaFile = NoMeta
    /\ metaTempFile = NoMeta
    /\ finalFile = NoFile
    /\ IdleCoordinator

\* reserve, lines 135-144; it takes no lock
reserve(total, hint) ==
    /\ cpc \in {"run", "refused", "reserved"}
    /\ mutex = 0
    /\ \A w \in Workers : wpc[w] \in {"alloc", "fill", "filled", "done"}
    /\ IF opened \/ finishedRanges # {} \/ allocateRanges # {}
       THEN /\ cpc' = "refused"
            /\ UNCHANGED <<blockHint, bytesTotal>>
       ELSE /\ blockHint' = hint
            /\ bytesTotal' = total
            /\ cpc' = "reserved"
    /\ UNCHANGED <<bytesProcessed, allocateRanges, finishedRanges, availableRanges>>
    /\ UNCHANGED <<mutex, last, workerVars, calls, fsVars>>
    /\ UNCHANGED <<darchive, connections, blockSize, attribute, error, ret, flag,
                   clock, response, states, wresponse, lastIndex, lastDump, promoted>>

\* the threads fill a file that is open; on a RangeFile that is not, they give
\* the interval back as they got it (as the first block of
\* UtilTestForClassRangeFile does)
fillOpened(w) ==
    IF opened THEN testFill(w)
    ELSE /\ wpc[w] = "fill"
         /\ wpc' = [wpc EXCEPT ![w] = "filled"]
         /\ UNCHANGED <<metaVars, mutex, last, wrange, wsize, wtmp, wecode, calls>>
         /\ UNCHANGED <<fsVars, coVars>>

NextReserve ==
    \/ \E w \in Workers :
          \/ allocate(w)
          \/ allocateTile(w)
          \/ allocateAfterTile(w)
          \/ fillOpened(w)
          \/ fillStore(w)
          \/ fillMirror(w)
          \/ testDeallocate(w)
    \/ \E total \in 1..MaxBytes : \E hint \in 1..MaxBytes : reserve(total, hint)

SpecReserve == InitReserve /\ [][NextReserve]_vars

\* C39: bytesTotal and blockHint change only while the file is not open and
\* the three sets are empty, and a reserve called on an open file or after
\* allocate has initialised the sets returns false.
C39_ReserveRefused ==
    [][/\ (bytesTotal' # bytesTotal \/ blockHint' # blockHint) =>
              (~opened /\ allRanges = {})
       /\ (cpc' = "reserved" /\ cpc # "reserved") =>
              (~opened /\ allRanges = {})
       /\ (bytesTotal' # bytesTotal \/ blockHint' # blockHint \/ cpc' # cpc) =>
              /\ allocateRanges' = allocateRanges
              /\ finishedRanges' = finishedRanges
              /\ availableRanges' = availableRanges]_vars

\* --------------------------------------- deallocate of any caller's interval
\* The test's threads run; a thread that holds nothing may pass deallocate an
\* interval of its own making, Pending at its start, and ends with what the
\* call returned.
deallocateAny(w, r) ==
    /\ wpc[w] = "alloc"
    /\ mutex = 0
    /\ LET d == deallocated(r) IN
          /\ allocateRanges' = d.alloc
          /\ finishedRanges' = d.fin
          /\ availableRanges' = d.avail
          /\ wpc' = [wpc EXCEPT ![w] = IF d.ok THEN "returned_true"
                                        ELSE "returned_false"]
    /\ wrange' = [wrange EXCEPT ![w] = r]
    /\ calls' = OverCalls
    /\ UNCHANGED <<blockHint, bytesTotal, bytesProcessed, mutex, last,
                   wsize, wtmp, wecode>>
    /\ UNCHANGED <<fsVars, coVars>>

NextStale ==
    \/ NextRF
    \/ \E w \in Workers : \E s \in 0..(MaxBytes - 1) : \E e \in s..(MaxBytes - 1) :
          deallocateAny(w, [start |-> s, end |-> e, position |-> s,
                            state |-> kPending])

SpecStale == InitRF /\ [][NextStale]_vars

\* C40: a deallocate whose interval has no entry of the same start and the
\* same end in allocated returns false and changes none of the three sets.
C40_MembershipByBothBounds ==
    [][\A w \in Workers :
          (/\ wpc[w] = "alloc"
           /\ wpc'[w] \in {"returned_true", "returned_false"}
           /\ ~\E x \in allocateRanges :
                  x.start = wrange'[w].start /\ x.end = wrange'[w].end) =>
              /\ wpc'[w] = "returned_false"
              /\ allocateRanges' = allocateRanges
              /\ finishedRanges' = finishedRanges
              /\ availableRanges' = availableRanges]_vars
====
